---------------------------- MODULE Spec2Model ----------------------------
(***************************************************************************)
(* A model of csx3dif (libcsx): the geometry canonicalizer of DIFBuilder,  *)
(* the convex-hull emit-string encoder, the BSP builder and linker, the    *)
(* coord-bin indexer and the parts of convert_csx that assemble the        *)
(* output.                                                                 *)
(*                                                                         *)
(* Numbers.  The program computes in f32.  The model computes in integers: *)
(*   - coordinates handed to OrdPoint are in units of 1e-7 (PointOne       *)
(*     units make 1.0), so POINT_EPSILON = 1e-6 is 10 units;               *)
(*   - components of unit normals are in units of 1e-4 (NormalOne units    *)
(*     make 1.0), so a dot product of two normals is in units of 1e-8;     *)
(*   - plane distances are in units of 1e-6 (DistOne units make 1.0), so   *)
(*     PLANE_EPSILON = 1e-5 is 10 units.                                   *)
(* Vec and HashMap indices are 0-based in the program; sequences here are  *)
(* 1-based, and every index the program returns or stores is kept 0-based. *)
(***************************************************************************)
EXTENDS Integers, Sequences, FiniteSets, TLC

VARIABLES
  cfg,        \* the process-wide configuration (POINT_EPSILON, BSP_CONFIG)
  bld,        \* the DIFBuilder: interior pools and lookup maps
  lastOp,     \* the interning operation called last ("none" before any)
  lastArg,    \* its argument
  lastRes,    \* the index it returned
  calls,      \* number of interning calls made so far
  repeated,   \* history: the last call repeated the call before it
  given,      \* history: the set of <<input point, index returned>>
  scene,      \* the input scene of a conversion: brushes, entities, mb_only
  run,        \* two conversions of the scene: seed, position, builder, output
  build,      \* one DIFBuilder::build of the scene: position, builder, BSP tree
  rating,     \* one calc_plane_rating call: the per-brush tasks and the set
  convert,    \* one convert_csx call: detail levels, builders, output buffers
  clip,       \* one clip_plane call in f32: the brush, the plane, the new faces
  emit,       \* one emit-string loop of export_convex_hull: the hull, the string written
  fan,        \* one surface: export_surface's fan order and its unwinding
  cast,       \* ray casts through one built BSP: the call made last, the audit's count
  atlas,      \* compute_lightmaps: the rectangles, the bins opened, the placements
  grouping,   \* process_hull_poly_lists: the plane groups of one hull
  console     \* ConsoleProgressListener: the channel, the listener thread and its bars

internVars == <<bld, lastOp, lastArg, lastRes, calls, repeated, given>>
runVars == <<scene, run, convert, clip, emit, fan, cast, atlas, grouping, console>>
vars == <<cfg, internVars, runVars, build, rating>>

---------------------------------------------------------------------------
(* Scales of the integer representation (not program constants).           *)
PointOne == 10 * 1000 * 1000
NormalOne == 10 * 1000
DistOne == 1000 * 1000

(* builder.rs:63  pub static mut POINT_EPSILON: f32 = 1e-6  (in 1e-7 units): *)
(* the default; main.rs passes --epsilon-point to the configuration, so    *)
(* the value in force is cfg.point_epsilon.                                *)
POINT_EPSILON == 10
(* builder.rs:64  pub static mut PLANE_EPSILON: f32 = 1e-5  (in 1e-6 units) *)
PLANE_EPSILON == 10
(* builder.rs:386  pindex |= 0x8000                                        *)
FlipBit == 32768

Abs(a) == IF a < 0 THEN 0 - a ELSE a
Max2(a, b) == IF a > b THEN a ELSE b
Min2(a, b) == IF a < b THEN a ELSE b

(* f32::abs_diff_eq(a, b, eps): |a - b| <= eps                             *)
abs_diff_eq(a, b, eps) == Abs(a - b) <= eps

(* `v.floor() as u32`: floor, then the saturating float-to-int cast        *)
FloorAsU32(v, one) == IF v < 0 THEN 0 ELSE v \div one

---------------------------------------------------------------------------
(* HashMap<K, V> with a hand-written Hash and PartialEq.  A map is the     *)
(* sequence of its entries [key, val] in insertion order.  A lookup        *)
(* compares the key only with entries of the same hash value, and returns  *)
(* the earliest inserted entry that is equal.  0 stands for None, i > 0    *)
(* for the i-th entry.                                                     *)
FirstOf(S) == IF S = {} THEN 0 ELSE CHOOSE i \in S : \A j \in S : i <= j

---------------------------------------------------------------------------
(* OrdPoint: PartialEq and Hash  (points are <<x, y, z>> in 1e-7 units)    *)
OrdPointEq(p, q) ==
  /\ abs_diff_eq(p[1], q[1], cfg.point_epsilon)
  /\ abs_diff_eq(p[2], q[2], cfg.point_epsilon)
  /\ abs_diff_eq(p[3], q[3], cfg.point_epsilon)

OrdPointHash(p) ==
  LET x == (FloorAsU32(p[1], PointOne) \div 32) % 16
      y == (FloorAsU32(p[2], PointOne) \div 32) % 16
      z == (FloorAsU32(p[3], PointOne) \div 32) % 16
  IN  x * 256 + y * 16 + z

(* OrdPoint::from(&plane.normal): a normal (1e-4 units) as an OrdPoint     *)
NormalAsOrdPoint(n) ==
  <<n[1] * (PointOne \div NormalOne), n[2] * (PointOne \div NormalOne),
    n[3] * (PointOne \div NormalOne)>>

(* OrdPlaneF: PartialEq and Hash.  A PlaneF is [normal |-> <<x,y,z>>,      *)
(* distance |-> d], normal in 1e-4 units, distance in 1e-6 units.          *)
Dot3(a, b) == a[1] * b[1] + a[2] * b[2] + a[3] * b[3]

OrdPlaneEq(p, q) ==
  /\ Dot3(p.normal, q.normal) > 999 * ((NormalOne * NormalOne) \div 1000)
  /\ abs_diff_eq(p.distance, q.distance, PLANE_EPSILON)

(* (v * 100.0 + 0.5).floor(), for v given in units of 1/one                *)
Round100(v, one) == (v + one \div 200) \div (one \div 100)

OrdPlaneHash(p) ==
  LET mul == Round100(Max2(Max2(Abs(p.normal[1]), Abs(p.normal[2])),
                           Abs(p.normal[3])), NormalOne)
      dd  == Round100(Abs(p.distance), DistOne)
  IN  ((mul * dd) \div 10000) % 4096

NegPlane(p) ==
  [normal |-> <<0 - p.normal[1], 0 - p.normal[2], 0 - p.normal[3]>>,
   distance |-> 0 - p.distance]

(* OrdTexGen: PartialEq (1e-5 on all eight numbers) and Hash.  A TexGen is *)
(* [plane_x |-> PlaneF, plane_y |-> PlaneF] with every number in 1e-6      *)
(* units.                                                                  *)
TexPlaneEq(p, q) ==
  /\ abs_diff_eq(p.normal[1], q.normal[1], 10)
  /\ abs_diff_eq(p.normal[2], q.normal[2], 10)
  /\ abs_diff_eq(p.normal[3], q.normal[3], 10)
  /\ abs_diff_eq(p.distance, q.distance, 10)

OrdTexGenEq(s, t) ==
  TexPlaneEq(s.plane_x, t.plane_x) /\ TexPlaneEq(s.plane_y, t.plane_y)

TexPlaneHash(p) ==
  LET mul == Round100(Max2(Max2(Abs(p.normal[1]), Abs(p.normal[2])),
                           Abs(p.normal[3])), DistOne)
      dd  == Round100(Abs(p.distance), DistOne)
  IN  ((mul * dd) \div 10000) % 4096

OrdTexGenHash(t) == <<TexPlaneHash(t.plane_x), TexPlaneHash(t.plane_y)>>

(* HashMap::get on point_map / normal_map, plane_map, texgen_map and       *)
(* emit_string_map (Vec<u8> keys: derived Eq and Hash)                     *)
PointMapFind(map, key) ==
  FirstOf({i \in 1..Len(map) :
             OrdPointHash(map[i].key) = OrdPointHash(key) /\ OrdPointEq(key, map[i].key)})

PlaneMapFind(map, key) ==
  FirstOf({i \in 1..Len(map) :
             OrdPlaneHash(map[i].key) = OrdPlaneHash(key) /\ OrdPlaneEq(key, map[i].key)})

TexGenMapFind(map, key) ==
  FirstOf({i \in 1..Len(map) :
             OrdTexGenHash(map[i].key) = OrdTexGenHash(key) /\ OrdTexGenEq(key, map[i].key)})

EmitStringMapFind(map, key) == FirstOf({i \in 1..Len(map) : map[i].key = key})

---------------------------------------------------------------------------
(* DIFBuilder::new: empty interior, empty maps                             *)
NewBuilder(mb) ==
  [mb_only |-> mb,
   points |-> <<>>, point_visibilities |-> <<>>, point_map |-> <<>>,
   planes |-> <<>>, normals |-> <<>>, normal2s |-> <<>>,
   plane_map |-> <<>>, normal_map |-> <<>>,
   tex_gen_eqs |-> <<>>, texgen_map |-> <<>>,
   material_names |-> <<>>,
   convex_hull_emit_string_characters |-> <<>>, emit_string_map |-> <<>>,
   face_to_surface |-> <<>>, face_to_plane |-> <<>>,
   surfaces |-> <<>>, indices |-> <<>>, zone_surfaces |-> <<>>,
   hull_indices |-> <<>>, hull_plane_indices |-> <<>>,
   hull_surface_indices |-> <<>>, hull_emit_string_indices |-> <<>>,
   poly_list_point_indices |-> <<>>, poly_list_plane_indices |-> <<>>,
   convex_hulls |-> <<>>,
   bsp_nodes |-> <<>>, bsp_solid_leaves |-> <<>>, solid_leaf_surfaces |-> <<>>,
   coord_bins |-> <<>>, coord_bin_indices |-> <<>>]

(* Every interning operation returns [b |-> the builder afterwards,        *)
(* r |-> the index returned].                                              *)

(* DIFBuilder::export_point                                                *)
export_point(b, pos) ==
  LET hit == PointMapFind(b.point_map, pos)
      index == Len(b.points)
  IN  IF hit # 0 THEN [b |-> b, r |-> b.point_map[hit].val]
      ELSE [b |-> [b EXCEPT !.points = Append(@, pos),
                            !.point_visibilities = Append(@, 255),
                            !.point_map = Append(@, [key |-> pos, val |-> index])],
            r |-> index]

(* DIFBuilder::export_tex_gen                                              *)
export_tex_gen(b, tex_gen) ==
  LET index == Len(b.tex_gen_eqs)
      hit == TexGenMapFind(b.texgen_map, tex_gen)
  IN  IF hit # 0 THEN [b |-> b, r |-> b.texgen_map[hit].val]
      ELSE [b |-> [b EXCEPT !.tex_gen_eqs = Append(@, tex_gen),
                            !.texgen_map = Append(@, [key |-> tex_gen, val |-> index])],
            r |-> index]

(* DIFBuilder::export_texture: linear search over material_names           *)
TextureFind(names, texture) ==
  IF \E i \in 1..Len(names) : names[i] = texture
  THEN CHOOSE i \in 1..Len(names) :
         names[i] = texture /\ \A j \in 1..(i - 1) : names[j] # texture
  ELSE 0

export_texture(b, texture) ==
  LET hit == TextureFind(b.material_names, texture)
  IN  IF hit # 0 THEN [b |-> b, r |-> hit - 1]
      ELSE [b |-> [b EXCEPT !.material_names = Append(@, texture)],
            r |-> Len(b.material_names)]

(* export_plane with the slip of inserting the key computed last (the      *)
(* negated plane) instead of recomputing it from the plane.                *)
export_plane_stale_key(b, plane) ==
  LET hit == PlaneMapFind(b.plane_map, plane)
      pinvplane == NegPlane(plane)
      hitinv == PlaneMapFind(b.plane_map, pinvplane)
      index == Len(b.planes)
  IN  IF hit # 0 THEN [b |-> b, r |-> b.plane_map[hit].val]
      ELSE IF hitinv # 0
      THEN [b |-> b, r |-> b.plane_map[hitinv].val + FlipBit]
      ELSE [b |-> [b EXCEPT
                     !.normals = Append(@, plane.normal),
                     !.planes = Append(@, [normal_index |-> Len(b.normals),
                                           plane_distance |-> plane.distance]),
                     !.plane_map = Append(@, [key |-> pinvplane, val |-> index])],
            r |-> index]

(* DIFBuilder::export_plane                                                *)
export_plane(b, plane) ==
  LET hit == PlaneMapFind(b.plane_map, plane)
      pinvplane == NegPlane(plane)
      hitinv == PlaneMapFind(b.plane_map, pinvplane)
      index == Len(b.planes)
      normal_ord == NormalAsOrdPoint(plane.normal)
      nhit == PointMapFind(b.normal_map, normal_ord)
      normal_index == Len(b.normals)
  IN  IF hit # 0 THEN [b |-> b, r |-> b.plane_map[hit].val]
      ELSE IF hitinv # 0
      THEN [b |-> b, r |-> b.plane_map[hitinv].val + FlipBit]
      ELSE IF nhit # 0
      THEN [b |-> [b EXCEPT
                     !.planes = Append(@, [normal_index |-> b.normal_map[nhit].val,
                                           plane_distance |-> plane.distance]),
                     !.plane_map = Append(@, [key |-> plane, val |-> index])],
            r |-> index]
      ELSE [b |-> [b EXCEPT
                     !.normal_map = Append(@, [key |-> normal_ord, val |-> normal_index]),
                     !.normals = Append(@, plane.normal),
                     !.normal2s = IF b.mb_only THEN @ ELSE Append(@, plane.normal),
                     !.planes = Append(@, [normal_index |-> normal_index,
                                           plane_distance |-> plane.distance]),
                     !.plane_map = Append(@, [key |-> plane, val |-> index])],
            r |-> index]

(* DIFBuilder::export_emit_string                                          *)
export_emit_string(b, string) ==
  LET index == Len(b.convex_hull_emit_string_characters)
      hit == EmitStringMapFind(b.emit_string_map, string)
  IN  IF hit # 0 THEN [b |-> b, r |-> b.emit_string_map[hit].val]
      ELSE [b |-> [b EXCEPT
                     !.emit_string_map = Append(@, [key |-> string, val |-> index]),
                     !.convex_hull_emit_string_characters = @ \o string],
            r |-> index]


---------------------------------------------------------------------------
(* Brushes.  A brush is [vertices, face]: vertices a sequence of positions *)
(* in whole world units, face a sequence of                                *)
(* [face_id, plane, indices, texgens, material] with plane                 *)
(* [normal, distance] in the fixed-point units above (normal . x +         *)
(* distance = 0 on the plane) and indices the 0-based vertex indices of    *)
(* the face's winding.                                                     *)

(* Vector3<f32> of a vertex as OrdPoint sees it                            *)
VertexPos(v) == <<v[1] * PointOne, v[2] * PointOne, v[3] * PointOne>>

(* u8 conversion of `x as _`                                               *)
AsU8(x) == x % 256

(* the elements of a set of integers in ascending order                    *)
RECURSIVE SortedSeq(_)
SortedSeq(S) ==
  IF S = {} THEN <<>>
  ELSE LET m == CHOOSE x \in S :
                  Cardinality({y \in S : y < x}) = Cardinality(S) \div 2
       IN  SortedSeq({y \in S : y < m}) \o <<m>> \o SortedSeq({y \in S : y > m})

(* the sequences ss[lo], ..., ss[hi] joined, halving the range             *)
RECURSIVE ConcatRange(_, _, _)
ConcatRange(ss, lo, hi) ==
  IF lo > hi THEN <<>>
  ELSE IF lo = hi THEN ss[lo]
  ELSE ConcatRange(ss, lo, (lo + hi) \div 2) \o ConcatRange(ss, (lo + hi) \div 2 + 1, hi)

Rotate(s, k) == [i \in 1..Len(s) |-> s[((i - 1 + k) % Len(s)) + 1]]

(* Iteration order of a std HashSet / HashMap (RandomState): the bucket    *)
(* order under the SipHash keys the process drew at start.  Every order of *)
(* the elements is possible; the order for a given key is fixed.  The      *)
(* model's keys are the seeds 0..MaxSeed-1, and the order under a seed is  *)
(* the ascending order rotated by it.                                      *)
HashSetOrder(S, seed) ==
  IF S = {} THEN <<>> ELSE Rotate(SortedSeq(S), seed % Cardinality(S))

(* key of a HashMap<i32, _> association list, 0 when absent                *)
IdMapFind(map, key) == FirstOf({i \in 1..Len(map) : map[i].key = key})

SeqContains(s, x) == \E i \in 1..Len(s) : s[i] = x

(* Iterator::position: 0-based position of the first x in s                *)
Position(s, x) == FirstOf({i \in 1..Len(s) : s[i] = x}) - 1

(* the winding written for a face (triangle-strip order)                   *)
SurfaceWinding(face, hull_points) ==
  LET n == Len(face.indices)
  IN  [k \in 1..n |->
        LET i == k - 1
        IN  IF i >= 2
            THEN IF i % 2 = 0
                 THEN hull_points[face.indices[(n - 1 - (i - 2) \div 2) + 1] + 1]
                 ELSE hull_points[face.indices[((i + 1) \div 2) + 1] + 1]
            ELSE hull_points[face.indices[i + 1] + 1]]

(* Binding a value to a name: The({F(x) : x \in {e}}) is F(e), with e      *)
(* computed once however often F uses x.                                   *)
The(S) == CHOOSE x \in S : TRUE

(* export_surface past the face_to_surface lookup: pl, tg and tx are the   *)
(* outcomes of export_plane, export_tex_gen and export_texture             *)
SurfaceExported(b, face, hull_points, pl, tg, tx) ==
  LET index == Len(b.surfaces)
      surface == [winding_start |-> Len(b.indices),
                  winding_count |-> Len(face.indices),
                  plane_index |-> pl.r,
                  plane_flipped |-> pl.r >= FlipBit,
                  texture_index |-> tx.r,
                  tex_gen_index |-> tg.r]
  IN  [b |-> [tx.b EXCEPT
                !.face_to_surface = Append(@, [key |-> face.face_id, val |-> index]),
                !.face_to_plane = Append(@, [key |-> face.face_id, val |-> pl.r]),
                !.indices = @ \o SurfaceWinding(face, hull_points),
                !.zone_surfaces = Append(@, index),
                !.surfaces = Append(@, surface)],
       r |-> index]

(* DIFBuilder::export_surface                                              *)
export_surface(b, face, hull_points) ==
  IF IdMapFind(b.face_to_surface, face.face_id) # 0
  THEN [b |-> b,
        r |-> b.face_to_surface[IdMapFind(b.face_to_surface, face.face_id)].val]
  ELSE The({The({The({SurfaceExported(b, face, hull_points, pl, tg, tx) :
                        tx \in {export_texture(tg.b, face.material)}}) :
                   tg \in {export_tex_gen(pl.b, face.texgens)}}) :
              pl \in {export_plane(b, face.plane)}})

(* The three maps over a brush's vertices and faces.  acc is               *)
(* [b |-> the builder so far, r |-> the indices collected so far]; k is    *)
(* the 1-based position of the next element.                               *)

(* b.vertices.vertex.iter().map(|v| self.export_point(v))                  *)
RECURSIVE ExportHullPoints(_, _, _)
ExportHullPoints(acc, vs, k) ==
  IF k > Len(vs) THEN acc
  ELSE The({ExportHullPoints([b |-> h.b, r |-> Append(acc.r, h.r)], vs, k + 1) :
              h \in {export_point(acc.b, VertexPos(vs[k]))}})

(* b.face.iter().map(|f| self.export_plane(&f.plane))                      *)
RECURSIVE ExportHullPlanes(_, _, _)
ExportHullPlanes(acc, fs, k) ==
  IF k > Len(fs) THEN acc
  ELSE The({ExportHullPlanes([b |-> h.b, r |-> Append(acc.r, h.r)], fs, k + 1) :
              h \in {export_plane(acc.b, fs[k].plane)}})

(* b.face.iter().map(|f| self.export_surface(f, &hull_exported_points))    *)
RECURSIVE ExportHullSurfaces(_, _, _, _)
ExportHullSurfaces(acc, fs, hull_points, k) ==
  IF k > Len(fs) THEN acc
  ELSE The({ExportHullSurfaces([b |-> h.b, r |-> Append(acc.r, h.r)],
                               fs, hull_points, k + 1) :
              h \in {export_surface(acc.b, fs[k], hull_points)}})

(* the HullPoly list of a brush: winding and interned plane of each face   *)
HullPolys(b, brush) ==
  [j \in 1..Len(brush.face) |->
     [points |-> brush.face[j].indices,
      plane_index |-> b.face_to_plane[IdMapFind(b.face_to_plane,
                                                brush.face[j].face_id)].val]]

(* elements of a sequence, as a set                                        *)
Range(s) == {s[i] : i \in 1..Len(s)}

(* windows2_wrap of a winding, each pair as EmitEdge {first: min, last:    *)
(* max}; an edge is the pair <<first, last>>                               *)
PolyEdges(points) ==
  {<<Min2(points[i], points[(i % Len(points)) + 1]),
     Max2(points[i], points[(i % Len(points)) + 1])>> : i \in 1..Len(points)}

(* sort key of an edge; both ends are below 0x100                          *)
EdgeKey(edge) == edge[1] * 256 + edge[2]
EdgeOfKey(k) == <<k \div 256, k % 256>>

(* the polys that contain hull point i, in list order                      *)
PolysContaining(hull_polys, i) ==
  SortedSeq({j \in 0..(Len(hull_polys) - 1) : SeqContains(hull_polys[j + 1].points, i)})

(* how often the sibling loop pushes poly j: once for every poly of        *)
(* emit_poly_indices other than j that shares j's plane index, unless j is *)
(* in emit_poly_indices                                                    *)
SiblingPushes(hull_polys, emit_poly_indices, j) ==
  IF SeqContains(emit_poly_indices, j) THEN 0
  ELSE Cardinality({e \in 1..Len(emit_poly_indices) :
         /\ emit_poly_indices[e] # j
         /\ hull_polys[emit_poly_indices[e] + 1].plane_index
              = hull_polys[j + 1].plane_index})

(* new_indices of the sibling loop, from poly j on                         *)
NewIndices(hull_polys, emit_poly_indices, j) ==
  The({ConcatRange(pushes, j + 1, Len(hull_polys)) :
         pushes \in {[jj \in 1..Len(hull_polys) |->
                        [k \in 1..SiblingPushes(hull_polys, emit_poly_indices, jj - 1) |->
                           jj - 1]]}})

(* emit_poly_indices after emit_poly_indices.extend(new_indices)           *)
EmitPolyIndices(hull_polys, i) ==
  The({with \o NewIndices(hull_polys, with, 0) :
         with \in {PolysContaining(hull_polys, i)}})

(* the two bytes of every edge from the k-th on                            *)
EdgeBytes(edge_keys, k) ==
  [i \in 1..(2 * (Len(edge_keys) - k + 1)) |->
     AsU8(EdgeOfKey(edge_keys[k + (i - 1) \div 2])[2 - (i % 2)])]

(* the bytes of every poly from the k-th on: length, index, and the        *)
(* position of each of its points in emit_points                          *)
PolyBytes(hull_polys, polys, emit_points, k) ==
  The({ConcatRange(bytes, k, Len(polys)) :
         bytes \in {[kk \in 1..Len(polys) |->
                       <<AsU8(Len(hull_polys[polys[kk] + 1].points)), AsU8(polys[kk])>>
                         \o [m \in 1..Len(hull_polys[polys[kk] + 1].points) |->
                               AsU8(Position(emit_points,
                                             hull_polys[polys[kk] + 1].points[m]))]]}})

(* the points of the emitted polys, in HashSet order                       *)
EmitPoints(hull_polys, emit_poly_indices, seed) ==
  HashSetOrder(UNION {Range(hull_polys[emit_poly_indices[e] + 1].points) :
                        e \in 1..Len(emit_poly_indices)}, seed)

(* the edges of the emitted polys, in HashSet order, as edge keys          *)
EmitEdges(hull_polys, emit_poly_indices, seed) ==
  HashSetOrder({EdgeKey(ed) :
                  ed \in UNION {PolyEdges(hull_polys[emit_poly_indices[e] + 1].points) :
                                  e \in 1..Len(emit_poly_indices)}}, seed)

(* the bytes of an emit string                                             *)
EmitBytes(hull_polys, emit_poly_indices, emit_points, emit_edges) ==
  <<AsU8(Len(emit_points))>> \o [k \in 1..Len(emit_points) |-> AsU8(emit_points[k])]
    \o <<AsU8(Len(emit_edges))>> \o EdgeBytes(emit_edges, 1)
    \o <<AsU8(Len(emit_poly_indices))>>
    \o PolyBytes(hull_polys, emit_poly_indices, emit_points, 1)

(* the emit string of hull point i                                         *)
EmitString(hull_polys, i, seed) ==
  The({The({The({EmitBytes(hull_polys, polys, points, edges) :
                   edges \in {EmitEdges(hull_polys, polys, seed)}}) :
              points \in {EmitPoints(hull_polys, polys, seed)}}) :
         polys \in {EmitPolyIndices(hull_polys, i)}})

(* the loop over the hull's points, from point i on: one emit string each  *)
RECURSIVE ExportEmitStrings(_, _, _, _, _)
ExportEmitStrings(b, hull_polys, i, n, seed) ==
  IF i >= n THEN b
  ELSE The({The({ExportEmitStrings(
                   [es.b EXCEPT !.hull_emit_string_indices = Append(@, es.r)],
                   hull_polys, i + 1, n, seed) :
                   es \in {export_emit_string(b, string)}}) :
              string \in {EmitString(hull_polys, i, seed)}})

SeqMin(s) == CHOOSE x \in Range(s) : \A y \in Range(s) : x <= y
SeqMax(s) == CHOOSE x \in Range(s) : \A y \in Range(s) : x >= y

(* BoxF::from_vertices                                                     *)
BoxFromVertices(vs) ==
  [min |-> <<SeqMin([k \in 1..Len(vs) |-> vs[k][1]]),
             SeqMin([k \in 1..Len(vs) |-> vs[k][2]]),
             SeqMin([k \in 1..Len(vs) |-> vs[k][3]])>>,
   max |-> <<SeqMax([k \in 1..Len(vs) |-> vs[k][1]]),
             SeqMax([k \in 1..Len(vs) |-> vs[k][2]]),
             SeqMax([k \in 1..Len(vs) |-> vs[k][3]])>>]

(* export_convex_hull past the points: the hull indices appended           *)
HullPointsAppended(b, pts) ==
  [pts.b EXCEPT
     !.hull_indices = @ \o pts.r,
     !.poly_list_point_indices = IF b.mb_only THEN @ ELSE @ \o pts.r]

(* export_convex_hull past the planes: the plane indices appended          *)
HullPlanesAppended(b, pls) ==
  [pls.b EXCEPT
     !.poly_list_plane_indices = IF b.mb_only THEN @ ELSE @ \o pls.r,
     !.hull_plane_indices = IF b.mb_only THEN @ ELSE @ \o pls.r]

(* export_convex_hull past the surfaces: surface indices appended, then    *)
(* the emit strings of the hull's points                                   *)
HullStringsExported(b3, brush, seed) ==
  IF b3.mb_only THEN b3
  ELSE The({ExportEmitStrings(b3, hull_polys, 0, Len(brush.vertices), seed) :
              hull_polys \in {HullPolys(b3, brush)}})

(* DIFBuilder::export_convex_hull of one brush, under HashSet seed `seed`  *)
export_convex_hull(b, brush, seed) ==
  LET bounding_box == BoxFromVertices(brush.vertices)
      hull == [hull_start |-> Len(b.hull_indices),
               hull_count |-> Len(brush.vertices),
               min |-> bounding_box.min,
               max |-> bounding_box.max,
               surface_start |-> Len(b.hull_surface_indices),
               surface_count |-> Len(brush.face),
               plane_start |-> Len(b.hull_plane_indices),
               poly_list_plane_start |-> Len(b.poly_list_plane_indices),
               poly_list_point_start |-> Len(b.poly_list_point_indices)]
  IN  The({The({The({The({
        [b |-> [b4 EXCEPT !.convex_hulls = Append(@, hull)],
         r |-> Len(b.convex_hulls)] :
          b4 \in {HullStringsExported(
                    [sfs.b EXCEPT !.hull_surface_indices = @ \o sfs.r], brush, seed)}}) :
          sfs \in {ExportHullSurfaces([b |-> HullPlanesAppended(b, pls), r |-> <<>>],
                                      brush.face, pts.r, 1)}}) :
          pls \in {ExportHullPlanes([b |-> HullPointsAppended(b, pts), r |-> <<>>],
                                    brush.face, 1)}}) :
          pts \in {ExportHullPoints([b |-> b, r |-> <<>>], brush.vertices, 1)}})

---------------------------------------------------------------------------
(* The canonicalizer driven directly: any interning operation, any         *)
(* argument of a small set, in any order (SpecIntern).                     *)

(* Bound on the number of interning calls of one behaviour.                *)
MaxCalls == 3

(* --epsilon-point: the default, and a coarser one a user may pass         *)
LargePointEpsilon == 1000 * POINT_EPSILON
PointEpsilons == {POINT_EPSILON, LargePointEpsilon}

(* Vertex positions: three on a chain of steps below 1e-6 around 0, and    *)
(* two on either side of the hash-bucket boundary at 32.0 (6e-4 apart).    *)
PointInputs ==
  { <<0, 0, 0>>, <<8, 0, 0>>, <<15, 0, 0>>,
    <<319996000, 0, 0>>, <<320002000, 0, 0>> }

(* Planes with unit normals (preprocess_csx normalizes them).  NormalUp    *)
(* and NormalTilt are 1.6 degrees apart (dot 0.9996).  The distances       *)
(* 0.994996 and 0.995004 are 8e-6 apart and round to 0.99 and 1.00.        *)
NormalUp == <<0, 0, 10000>>
NormalDown == <<0, 0, -10000>>
NormalTilt == <<0, 283, 9996>>
PlaneInputs ==
  { [normal |-> NormalUp, distance |-> 2000000],
    [normal |-> NormalTilt, distance |-> 2000008],
    [normal |-> NormalDown, distance |-> -2000000],
    [normal |-> NormalUp, distance |-> 994996],
    [normal |-> NormalUp, distance |-> 995004],
    [normal |-> NormalDown, distance |-> -995004] }

TexGenInputs ==
  { [plane_x |-> [normal |-> <<1000000, 0, 0>>, distance |-> 0],
     plane_y |-> [normal |-> <<0, 1000000, 0>>, distance |-> 0]],
    [plane_x |-> [normal |-> <<1000004, 0, 0>>, distance |-> 0],
     plane_y |-> [normal |-> <<0, 1000000, 0>>, distance |-> 0]],
    [plane_x |-> [normal |-> <<0, 0, 1000000>>, distance |-> 500000],
     plane_y |-> [normal |-> <<0, 1000000, 0>>, distance |-> 0]] }

TextureInputs == {"stone", "wood"}

EmitStringInputs == { <<1, 0, 0, 0>>, <<2, 0, 1, 1, 0, 1, 0>> }

Configs == [point_epsilon : PointEpsilons, split_method : {"Fast"}]

DefaultConfig == [point_epsilon |-> POINT_EPSILON, split_method |-> "Fast"]

(* the variables of the parts a specification does not exercise            *)
IdleIntern ==
  /\ bld = NewBuilder(FALSE)
  /\ lastOp = "none"
  /\ lastArg = <<>>
  /\ lastRes = 0
  /\ calls = 0
  /\ repeated = FALSE
  /\ given = {}

IdleRuns == scene = <<>> /\ run = <<>> /\ convert = <<>> /\ clip = <<>> /\ emit = <<>> /\ fan = <<>> /\ cast = <<>> /\ atlas = <<>> /\ grouping = <<>> /\ console = <<>>
IdleBuild == build = <<>>
IdleRating == rating = <<>>

InitIntern ==
  /\ cfg \in Configs
  /\ bld \in {NewBuilder(mb) : mb \in BOOLEAN}
  /\ lastOp = "none"
  /\ lastArg = <<>>
  /\ lastRes = 0
  /\ calls = 0
  /\ repeated = FALSE
  /\ given = {}
  /\ IdleRuns
  /\ IdleBuild
  /\ IdleRating

(* One call of an interning operation: op is its name, arg its argument,   *)
(* res its outcome [b, r].                                                 *)
Call(op, arg, res) ==
  /\ calls < MaxCalls
  /\ bld' = res.b
  /\ lastOp' = op
  /\ lastArg' = arg
  /\ lastRes' = res.r
  /\ calls' = calls + 1
  /\ repeated' = (lastOp = op /\ lastArg = arg)
  /\ given' = IF op = "export_point" THEN given \cup {<<arg, res.r>>} ELSE given
  /\ UNCHANGED <<cfg, runVars, build, rating>>

CallExportPoint == \E p \in PointInputs : Call("export_point", p, export_point(bld, p))
CallExportPlane == \E p \in PlaneInputs : Call("export_plane", p, export_plane(bld, p))
CallExportTexGen == \E t \in TexGenInputs : Call("export_tex_gen", t, export_tex_gen(bld, t))
CallExportTexture == \E t \in TextureInputs : Call("export_texture", t, export_texture(bld, t))
CallExportEmitString ==
  \E s \in EmitStringInputs : Call("export_emit_string", s, export_emit_string(bld, s))

NextIntern ==
  \/ CallExportPoint
  \/ CallExportPlane
  \/ CallExportTexGen
  \/ CallExportTexture
  \/ CallExportEmitString

SpecIntern == InitIntern /\ [][NextIntern]_vars

---------------------------------------------------------------------------
(* C1: calling an interning operation twice in a row with the same         *)
(* argument returns the same index both times, and the second call leaves  *)
(* every pool and every lookup map unchanged.                              *)
C1_InternIdempotent ==
  [][(calls' = calls + 1 /\ lastOp' = lastOp /\ lastArg' = lastArg)
       => (lastRes' = lastRes /\ bld' = bld)]_vars

(* A plane was interned twice in a row and came back flipped both times.   *)
C1_Witness == repeated /\ lastOp = "export_plane" /\ lastRes >= FlipBit

(* The pooled plane with index k (0-based), read back from the pools.      *)
PooledPlane(b, k) ==
  [normal |-> b.normals[b.planes[k + 1].normal_index + 1],
   distance |-> b.planes[k + 1].plane_distance]

PlaneIndices(b) == 0..(Len(b.planes) - 1)

(* C2: export_plane(P) returns the index of a pooled plane equal to P if   *)
(* there is one (flip bit clear); otherwise k | 0x8000 for a pooled plane  *)
(* k equal to -P, appending nothing; otherwise it appends P and returns    *)
(* the new index (flip bit clear).                                         *)
C2_ExportPlaneCases ==
  [][(calls' = calls + 1 /\ lastOp' = "export_plane") =>
       LET P == lastArg'
           same == {k \in PlaneIndices(bld) : OrdPlaneEq(P, PooledPlane(bld, k))}
           inv  == {k \in PlaneIndices(bld) : OrdPlaneEq(NegPlane(P), PooledPlane(bld, k))}
       IN  IF same # {} THEN lastRes' \in same
           ELSE IF inv # {}
           THEN /\ lastRes' \in {k + FlipBit : k \in inv}
                /\ bld'.planes = bld.planes
                /\ bld'.normals = bld.normals
           ELSE /\ lastRes' = Len(bld.planes)
                /\ lastRes' < FlipBit
                /\ Len(bld'.planes) = Len(bld.planes) + 1
                /\ PooledPlane(bld', lastRes') = P]_vars

(* C3: the plane pool never holds two planes equal to each other, nor a    *)
(* plane together with a plane equal to its negation.                      *)
C3_PlanePoolCanonical ==
  \A i, j \in PlaneIndices(bld) :
    i # j => /\ ~OrdPlaneEq(PooledPlane(bld, i), PooledPlane(bld, j))
             /\ ~OrdPlaneEq(NegPlane(PooledPlane(bld, i)), PooledPlane(bld, j))

(* "differ by less than POINT_EPSILON on every axis"                       *)
WithinPointEpsilon(p, q) ==
  /\ Abs(p[1] - q[1]) < cfg.point_epsilon
  /\ Abs(p[2] - q[2]) < cfg.point_epsilon
  /\ Abs(p[3] - q[3]) < cfg.point_epsilon

(* C4: any two input points within POINT_EPSILON of each other on every    *)
(* axis were given the same point index.                                   *)
C4_ClosePointsShareIndex ==
  \A g, h \in given : WithinPointEpsilon(g[1], h[1]) => g[2] = h[2]


---------------------------------------------------------------------------
(* Input brushes.                                                          *)

DefaultTexGen ==
  [plane_x |-> [normal |-> <<1000000, 0, 0>>, distance |-> 0],
   plane_y |-> [normal |-> <<0, 1000000, 0>>, distance |-> 0]]

(* a face as the parser hands it over; normals point out of the brush      *)
Face(id, normal, distance, indices) ==
  [face_id |-> id, plane |-> [normal |-> normal, distance |-> distance],
   indices |-> indices, texgens |-> DefaultTexGen, material |-> "stone"]

(* the axis-aligned box lo..hi with face ids id0..id0+5                    *)
BoxBrush(lo, hi, id0) ==
  [vertices |-> << <<lo[1], lo[2], lo[3]>>, <<hi[1], lo[2], lo[3]>>,
                   <<hi[1], hi[2], lo[3]>>, <<lo[1], hi[2], lo[3]>>,
                   <<lo[1], lo[2], hi[3]>>, <<hi[1], lo[2], hi[3]>>,
                   <<hi[1], hi[2], hi[3]>>, <<lo[1], hi[2], hi[3]>> >>,
   face |-> << Face(id0, <<0, 0, 0 - NormalOne>>, lo[3] * DistOne, <<0, 3, 2, 1>>),
               Face(id0 + 1, <<0, 0, NormalOne>>, (0 - hi[3]) * DistOne, <<4, 5, 6, 7>>),
               Face(id0 + 2, <<0, 0 - NormalOne, 0>>, lo[2] * DistOne, <<0, 1, 5, 4>>),
               Face(id0 + 3, <<0, NormalOne, 0>>, (0 - hi[2]) * DistOne, <<2, 3, 7, 6>>),
               Face(id0 + 4, <<0 - NormalOne, 0, 0>>, lo[1] * DistOne, <<3, 0, 4, 7>>),
               Face(id0 + 5, <<NormalOne, 0, 0>>, (0 - hi[1]) * DistOne, <<1, 2, 6, 5>>) >>]

(* a pyramid over a pentagon whose base is stored as three coplanar        *)
(* triangles (a triangulated face), face ids id0..id0+7                    *)
PyramidBrush(id0) ==
  [vertices |-> << <<0, 0, 0>>, <<4, 0, 0>>, <<6, 3, 0>>, <<3, 6, 0>>,
                   <<-1, 3, 0>>, <<2, 2, 4>> >>,
   face |-> << Face(id0, <<0, 0, 0 - NormalOne>>, 0, <<0, 2, 1>>),
               Face(id0 + 1, <<0, 0, 0 - NormalOne>>, 0, <<0, 3, 2>>),
               Face(id0 + 2, <<0, 0, 0 - NormalOne>>, 0, <<0, 4, 3>>),
               Face(id0 + 3, <<0, -8944, 4472>>, 0, <<0, 1, 5>>),
               Face(id0 + 4, <<6838, -4558, 5698>>, -2735054, <<1, 2, 5>>),
               Face(id0 + 5, <<5298, 5298, 6623>>, -4768316, <<2, 3, 5>>),
               Face(id0 + 6, <<-5031, 6708, 5450>>, -2515331, <<3, 4, 5>>),
               Face(id0 + 7, <<-8018, -2673, 5345>>, 0, <<4, 0, 5>>) >>]

---------------------------------------------------------------------------
(* convert_csx: the moving-platform groups and path followers              *)

Entity(classname, id) == [classname |-> classname, id |-> id]

(* the loop that fills path_node_groups, from entity i on; groups is the   *)
(* HashMap<usize, MPGroup> as a function of its keys                       *)
RECURSIVE GroupEntities(_, _, _, _)
GroupEntities(ents, i, cur_mp, groups) ==
  IF i >= Len(ents) THEN groups
  ELSE IF i < cur_mp THEN GroupEntities(ents, i + 1, cur_mp, groups)
  ELSE
    LET e == ents[i + 1]
        mp == IF e.classname = "Door_Elevator" THEN i ELSE cur_mp
        g1 == IF e.classname = "Door_Elevator"
              THEN [k \in DOMAIN groups \cup {i} |->
                      IF k = i THEN [entities |-> <<>>, triggers |-> <<>>]
                      ELSE groups[k]]
              ELSE groups
        g2 == IF e.classname = "path_node"
              THEN [g1 EXCEPT ![mp].entities = Append(@, i)]
              ELSE g1
        g3 == IF e.classname = "trigger"
              THEN [g2 EXCEPT ![mp].triggers = Append(@, i)]
              ELSE g2
    IN  GroupEntities(ents, i + 1, mp, g3)

(* path_node_groups.iter().enumerate().filter(..).map(..): the followers   *)
(* and exported triggers from position i of the iteration order on         *)
RECURSIVE MapFollowers(_, _, _, _)
MapFollowers(groups, order, i, out) ==
  IF i >= Len(order) THEN out
  ELSE
    LET k == order[i + 1]
        v == groups[k]
        len == Len(out.triggers)
        follower == [datablock_of |-> k,
                     interior_res_index |-> i,
                     trigger_ids |-> [t \in 1..Len(v.triggers) |-> len + t - 1],
                     way_points |-> v.entities]
    IN  IF v.entities = <<>> THEN MapFollowers(groups, order, i + 1, out)
        ELSE MapFollowers(groups, order, i + 1,
               [interior_path_followers |-> Append(out.interior_path_followers, follower),
                triggers |-> out.triggers \o v.triggers])

(* the path follower block of convert_csx under HashMap seed `seed`        *)
ExportPathFollowers(ents, seed) ==
  LET doors == {i \in 0..(Len(ents) - 1) : ents[i + 1].classname = "Door_Elevator"}
      groups == GroupEntities(ents, 0, FirstOf(doors), <<>>)
      none == [interior_path_followers |-> <<>>, triggers |-> <<>>]
  IN  IF doors = {} THEN none
      ELSE MapFollowers(groups, HashSetOrder(DOMAIN groups, seed), 0, none)

---------------------------------------------------------------------------
(* Two conversions of one scene (SpecRuns): each run exports the convex    *)
(* hulls of the scene's brushes and then the path followers, under the     *)
(* hash seed its process drew.                                             *)

(* number of hash seeds a process can draw                                 *)
MaxSeed == 3
Seeds == 0..(MaxSeed - 1)
Runs == {1, 2}

BrushLists ==
  { <<PyramidBrush(0)>>,
    <<BoxBrush(<<0, 0, 0>>, <<2, 2, 2>>, 0)>>,
    <<BoxBrush(<<0, 0, 0>>, <<2, 2, 2>>, 0), PyramidBrush(6)>> }

EntityLists ==
  { <<>>,
    <<Entity("Door_Elevator", 1), Entity("path_node", 2), Entity("trigger", 3)>>,
    <<Entity("path_node", 1), Entity("Door_Elevator", 2), Entity("path_node", 3),
      Entity("trigger", 4), Entity("Door_Elevator", 5), Entity("path_node", 6),
      Entity("trigger", 7)>> }

Scenes == [brushes : BrushLists, ents : EntityLists, mb_only : BOOLEAN]

InitRuns ==
  /\ cfg = DefaultConfig
  /\ IdleIntern
  /\ scene \in Scenes
  /\ \E s1, s2 \in Seeds :
       run = [r \in Runs |->
                [seed |-> IF r = 1 THEN s1 ELSE s2,
                 pc |-> "hulls",
                 b |-> NewBuilder(scene.mb_only),
                 interior_path_followers |-> <<>>,
                 triggers |-> <<>>]]
  /\ convert = <<>>
  /\ console = <<>>
  /\ grouping = <<>>
  /\ atlas = <<>>
  /\ cast = <<>>
  /\ fan = <<>>
  /\ emit = <<>>
  /\ clip = <<>>
  /\ IdleBuild
  /\ IdleRating

(* one iteration of export_brushes' loop in run r: export_convex_hull(i)   *)
ExportConvexHull(r) ==
  /\ run[r].pc = "hulls"
  /\ \E res \in {export_convex_hull(run[r].b,
                                     scene.brushes[Len(run[r].b.convex_hulls) + 1],
                                     run[r].seed)} :
       run' = [run EXCEPT
                 ![r].b = res.b,
                 ![r].pc = IF Len(res.b.convex_hulls) = Len(scene.brushes)
                           THEN "paths" ELSE "hulls"]
  /\ UNCHANGED <<cfg, internVars, scene, convert, clip, emit, fan, cast, atlas, grouping, console, build, rating>>

(* the path follower block of convert_csx in run r                         *)
ExportFollowers(r) ==
  /\ run[r].pc = "paths"
  /\ \E out \in {ExportPathFollowers(scene.ents, run[r].seed)} :
       run' = [run EXCEPT
                 ![r].interior_path_followers = out.interior_path_followers,
                 ![r].triggers = out.triggers,
                 ![r].pc = "done"]
  /\ UNCHANGED <<cfg, internVars, scene, convert, clip, emit, fan, cast, atlas, grouping, console, build, rating>>

NextRuns ==
  \/ \E r \in Runs : ExportConvexHull(r)
  \/ \E r \in Runs : ExportFollowers(r)

SpecRuns == InitRuns /\ [][NextRuns]_vars

(* what run r writes out: the interior's arrays and the path followers     *)
Output(r) ==
  [points |-> run[r].b.points,
   planes |-> run[r].b.planes,
   normals |-> run[r].b.normals,
   surfaces |-> run[r].b.surfaces,
   indices |-> run[r].b.indices,
   convex_hulls |-> run[r].b.convex_hulls,
   hull_indices |-> run[r].b.hull_indices,
   hull_emit_string_indices |-> run[r].b.hull_emit_string_indices,
   convex_hull_emit_string_characters |-> run[r].b.convex_hull_emit_string_characters,
   interior_path_followers |-> run[r].interior_path_followers,
   triggers |-> run[r].triggers]

(* C5: for a fixed configuration and scene, two runs write the same        *)
(* output: the emit-string bytes of every hull vertex and the              *)
(* interior_res_index and trigger_ids of every path follower are the same, *)
(* whatever the hash-set / hash-map iteration order.                       *)
C5_RunsBitIdentical ==
  (run # <<>> /\ run[1].pc = "done" /\ run[2].pc = "done") => Output(1) = Output(2)


(* Reading an emit string back, by the layout export_convex_hull writes:   *)
(* count and bytes of the points, count and byte pairs of the edges, count *)
(* of the polys and, for each poly, its point count, its index and its     *)
(* point bytes.  pos is the 0-based offset of the next byte.               *)
RECURSIVE DecodePolys(_, _, _)
DecodePolys(chars, pos, count) ==
  IF count = 0 THEN <<>>
  ELSE LET len == chars[pos + 1]
       IN  <<[index |-> chars[pos + 2],
              points |-> [k \in 1..len |-> chars[pos + 2 + k]]]>>
             \o DecodePolys(chars, pos + 2 + len, count - 1)

DecodeEmitString(chars, off) ==
  LET np == chars[off + 1]
      eo == off + 1 + np
      ne == chars[eo + 1]
      po == eo + 1 + 2 * ne
  IN  [points |-> [k \in 1..np |-> chars[off + 1 + k]],
       edges |-> [k \in 1..ne |-> <<chars[eo + 2 * k], chars[eo + 2 * k + 1]>>],
       polys |-> DecodePolys(chars, po + 1, chars[po + 1])]

NoRepeats(s) == \A i, j \in 1..Len(s) : i # j => s[i] # s[j]

(* the polys that contain hull point v or share a plane index with one     *)
(* that does                                                               *)
PolysAndSiblings(hull_polys, v) ==
  LET with == {j \in 1..Len(hull_polys) : SeqContains(hull_polys[j].points, v)}
  IN  {j - 1 : j \in {j \in 1..Len(hull_polys) :
                        \E e \in with : hull_polys[e].plane_index
                                          = hull_polys[j].plane_index}}

(* the decoded emit string d of hull point v is as the format requires     *)
EmitStringWellFormed(d, hull_polys, v) ==
  LET expected == PolysAndSiblings(hull_polys, v)
      poly_list == [k \in 1..Len(d.polys) |-> d.polys[k].index]
  IN  /\ NoRepeats(poly_list)
      /\ Range(poly_list) = expected
      /\ NoRepeats(d.points)
      /\ Range(d.points) = UNION {Range(hull_polys[j + 1].points) : j \in expected}
      /\ NoRepeats(d.edges)
      /\ Range(d.edges) = UNION {PolyEdges(hull_polys[j + 1].points) : j \in expected}
      /\ \A k \in 1..Len(d.polys) :
           d.polys[k].index \in expected =>
             LET pts == hull_polys[d.polys[k].index + 1].points
             IN  /\ Len(d.polys[k].points) = Len(pts)
                 /\ \A m \in 1..Len(pts) :
                      /\ d.polys[k].points[m] < Len(d.points)
                      /\ d.points[d.polys[k].points[m] + 1] = pts[m]

(* C10: for every exported brush and every vertex v of it (non-MB output)  *)
(* the emit string decodes to a poly list holding each poly that contains  *)
(* v and each poly sharing a plane index with one of those exactly once,   *)
(* a point list that is the union of those polys' points, an edge list     *)
(* that is the set of their consecutive vertex pairs, and poly point bytes *)
(* that are positions into the point list.                                 *)
C10_EmitStringDecodes ==
  \A r \in DOMAIN run : \A h \in 1..Len(run[r].b.convex_hulls) :
    ~scene.mb_only =>
      LET b == run[r].b
          hull_polys == HullPolys(b, scene.brushes[h])
      IN  \A v \in 0..(Len(scene.brushes[h].vertices) - 1) :
            EmitStringWellFormed(
              DecodeEmitString(b.convex_hull_emit_string_characters,
                b.hull_emit_string_indices[b.convex_hulls[h].hull_start + v + 1]),
              hull_polys, v)

---------------------------------------------------------------------------
(* bsp.rs: the BSP builder.  A CSXFace is [indices, plane_id, id,          *)
(* used_plane], a CSXBrush [vertices, faces], a plane of plane_list        *)
(* [normal, distance]; plane ids are 0-based positions of plane_list.      *)

(* bsp.rs:24  BSP_CONFIG.epsilon = 1e-4  (in 1e-6 units)                   *)
BSP_EPSILON == 100
(* bsp.rs:514  choose_multiple(&mut rng, 32)                               *)
SampleSize == 32
(* Option::None of a plane index                                          *)
NoPlane == 0 - 1

SplitMethods == {"Fast", "Exhaustive", "None"}

(* concatenation of a sequence of sequences (flat_map)                     *)
Concat(ss, k) == ConcatRange(ss, k, Len(ss))

Flatten(ss) == The({Concat(v, 1) : v \in {ss}})

SetMax(S) == CHOOSE x \in S : \A y \in S : x >= y
SetMin(S) == CHOOSE x \in S : \A y \in S : x <= y

(* normal.dot(pt) + distance of a vertex in whole units, in 1e-6 units     *)
PlaneDistance(plane, pt) ==
  Dot3(plane.normal, pt) * (DistOne \div NormalOne) + plane.distance

(* build_bsp: the number of faces of the brushes before brush k            *)
RECURSIVE FacesBefore(_, _)
FacesBefore(brush_list, k) ==
  IF k <= 1 THEN 0
  ELSE Len(brush_list[k - 1].face) + FacesBefore(brush_list, k - 1)

(* build_bsp: plane_list, one plane per face in brush and face order       *)
PlaneListOf(brush_list) ==
  Flatten([k \in 1..Len(brush_list) |->
             [j \in 1..Len(brush_list[k].face) |-> brush_list[k].face[j].plane]])

(* build_bsp: csx_brushes                                                  *)
CSXBrushes(brush_list) ==
  [k \in 1..Len(brush_list) |->
     [vertices |-> brush_list[k].vertices,
      faces |-> [j \in 1..Len(brush_list[k].face) |->
                   [indices |-> brush_list[k].face[j].indices,
                    plane_id |-> FacesBefore(brush_list, k) + j - 1,
                    id |-> brush_list[k].face[j].face_id,
                    used_plane |-> FALSE]]]]

(* calculate_split_rating: the face loop's test of one face                *)
FaceOnPlane(face, plane_id, plane_list) ==
  \/ face.plane_id = plane_id
  \/ plane_list[face.plane_id + 1] = NegPlane(plane_list[plane_id + 1])

(* the first face of the brush the face loop returns at, 0 for none        *)
FirstFaceOnPlane(brush, plane_id, plane_list) ==
  FirstOf({k \in 1..Len(brush.faces) : FaceOnPlane(brush.faces[k], plane_id, plane_list)})

(* calculate_split_rating past the face loop: the brush's vertices against *)
(* the plane; (front, back, splits, coplanar, tiny_windings)               *)
VertexRating(max_front, min_back) ==
  << IF max_front > BSP_EPSILON THEN 1 ELSE 0,
     IF min_back < 0 - BSP_EPSILON THEN 1 ELSE 0,
     IF max_front > BSP_EPSILON /\ min_back < 0 - BSP_EPSILON THEN 1 ELSE 0,
     0,
     IF \/ (max_front > 0 /\ max_front < DistOne)
        \/ (min_back < 0 /\ min_back > 0 - DistOne) THEN 1 ELSE 0 >>

UniquePoints(brush) ==
  UNION {Range(brush.faces[k].indices) : k \in 1..Len(brush.faces)}

SplitRatingOfVertices(brush, plane) ==
  The({VertexRating(SetMax(ds), SetMin(ds)) :
         ds \in {{0} \cup {PlaneDistance(plane, brush.vertices[p + 1]) :
                            p \in UniquePoints(brush)}}})

(* CSXBrush::calculate_split_rating; contained is what the read of         *)
(* considered_planes.contains(plane_id) returned                           *)
calculate_split_rating(brush, plane_id, plane_list, contained) ==
  IF ~contained /\ FirstFaceOnPlane(brush, plane_id, plane_list) # 0
  THEN IF brush.faces[FirstFaceOnPlane(brush, plane_id, plane_list)].plane_id = plane_id
       THEN <<0, 1, 0, 1, 0>>
       ELSE <<1, 0, 0, 1, 0>>
  ELSE SplitRatingOfVertices(brush, plane_list[plane_id + 1])

(* whether that call inserts plane_id into considered_planes               *)
InsertsConsidered(brush, plane_id, plane_list, contained) ==
  ~contained /\ FirstFaceOnPlane(brush, plane_id, plane_list) # 0

(* the reduce of calc_plane_rating: the sum of the ratings from k on       *)
RECURSIVE SumRatings(_, _)
SumRatings(ratings, k) ==
  IF k > Len(ratings) THEN <<0, 0, 0, 0, 0>>
  ELSE The({[c \in 1..5 |-> ratings[k][c] + rest[c]] :
              rest \in {SumRatings(ratings, k + 1)}})

IsAxial(plane) ==
  Cardinality({c \in 1..3 : Abs(plane.normal[c]) * (DistOne \div NormalOne) < BSP_EPSILON}) = 2

(* calc_plane_rating past the reduce                                       *)
FinalScore(plane, total) ==
  5 * total[4] - 5 * total[3] - Abs(total[1] - total[2]) - 1000 * total[5]
    + (IF IsAxial(plane) THEN 5 ELSE 0)

ScoreOfRatings(plane, ratings) ==
  The({FinalScore(plane, total) : total \in {SumRatings(ratings, 1)}})

(* CSXBSPNode::calc_plane_rating when the brushes of `first` read          *)
(* considered_planes before the first insert and the others after it       *)
calc_plane_rating(brush_list, plane_id, plane_list, first) ==
  The({ScoreOfRatings(plane_list[plane_id + 1], ratings) :
         ratings \in {[k \in 1..Len(brush_list) |->
                         calculate_split_rating(brush_list[k], plane_id, plane_list,
                                                k \notin first)]}})

(* the brushes whose face loop finds the plane or its exact negation       *)
PlaneHolders(brush_list, plane_id, plane_list) ==
  {k \in 1..Len(brush_list) : FirstFaceOnPlane(brush_list[k], plane_id, plane_list) # 0}

(* The schedules of the par_iter of calc_plane_rating, as the sets of      *)
(* holders that read the set before the first insert: the first holder to  *)
(* read always does, any other may.  The other brushes' reads do not       *)
(* matter: they take the vertex path either way.                           *)
RatingSchedules(brush_list, plane_id, plane_list) ==
  IF PlaneHolders(brush_list, plane_id, plane_list) = {} THEN {{}}
  ELSE (SUBSET PlaneHolders(brush_list, plane_id, plane_list)) \ {{}}

(* the scores calc_plane_rating can return                                 *)
RatingOutcomes(brush_list, plane_id, plane_list) ==
  {calc_plane_rating(brush_list, plane_id, plane_list, first) :
     first \in RatingSchedules(brush_list, plane_id, plane_list)}

(* clip_plane: the plane value tested against                              *)
ClipPlaneValue(plane_list, plane, flip_face) ==
  IF flip_face THEN NegPlane(plane_list[plane + 1]) ELSE plane_list[plane + 1]

(* d1 of the i-th vertex of a face (i from 1)                              *)
FaceDistance(brush, face, pv, i) ==
  PlaneDistance(pv, brush.vertices[face.indices[i] + 1])

FaceDistances(brush, face, pv) ==
  [i \in 1..Len(face.indices) |-> FaceDistance(brush, face, pv, i)]

Crosses(d1, d2) ==
  \/ (d1 > BSP_EPSILON /\ d2 < 0 - BSP_EPSILON)
  \/ (d1 < 0 - BSP_EPSILON /\ d2 > BSP_EPSILON)

(* the edges of a face (by first vertex) that get an intersection vertex;  *)
(* ds are the face's distances                                             *)
CrossingEdges(ds) ==
  {i \in 1..Len(ds) : Crosses(ds[i], ds[(i % Len(ds)) + 1])}

(* v3 = v1 + (v2 - v1) * t with t = -d1 / (d2 - d1)                        *)
Intersection(v1, v2, d1, d2) ==
  [c \in 1..3 |-> v1[c] + ((v2[c] - v1[c]) * Abs(d1)) \div (Abs(d1) + Abs(d2))]

(* the vertices one face appends to new_vertices, in order                 *)
FaceNewVertices(brush, face, ds) ==
  Flatten([i \in 1..Len(ds) |->
             IF i \in CrossingEdges(ds)
             THEN <<Intersection(brush.vertices[face.indices[i] + 1],
                                 brush.vertices[face.indices[(i % Len(ds)) + 1] + 1],
                                 ds[i], ds[(i % Len(ds)) + 1])>>
             ELSE <<>>])

(* new_indices of one face; base is new_vertices.len() before the face     *)
FaceNewIndices(face, ds, base) ==
  Flatten([i \in 1..Len(ds) |->
             (IF ds[i] <= BSP_EPSILON THEN <<face.indices[i]>> ELSE <<>>)
               \o (IF i \in CrossingEdges(ds)
                   THEN <<base + Cardinality({j \in CrossingEdges(ds) : j < i})>>
                   ELSE <<>>)])

(* clip_plane's loop over the faces from face k on; acc is                 *)
(* [vertices |-> new_vertices, faces |-> new_faces] so far                 *)
ClipFace(acc, brush, face, plane, ds) ==
  The({[vertices |-> acc.vertices \o FaceNewVertices(brush, face, ds),
        faces |-> IF Len(new_indices) > 2
                  THEN Append(acc.faces,
                              [plane_id |-> face.plane_id,
                               indices |-> new_indices,
                               id |-> face.id,
                               used_plane |-> face.used_plane \/ face.plane_id = plane])
                  ELSE acc.faces] :
         new_indices \in {FaceNewIndices(face, ds, Len(acc.vertices))}})

RECURSIVE ClipFaces(_, _, _, _, _)
ClipFaces(acc, brush, plane, pv, k) ==
  IF k > Len(brush.faces) THEN acc
  ELSE The({ClipFaces(a, brush, plane, pv, k + 1) :
              a \in {The({ClipFace(acc, brush, brush.faces[k], plane, ds) :
                            ds \in {FaceDistances(brush, brush.faces[k], pv)}})}})

(* CSXBrush::clip_plane                                                    *)
clip_plane(brush, plane, plane_list, flip_face) ==
  The({ClipFaces([vertices |-> brush.vertices, faces |-> <<>>], brush, plane, pv, 1) :
         pv \in {ClipPlaneValue(plane_list, plane, flip_face)}})

(* CSXBrush::split: [front_brush, back_brush]                              *)
SplitBrush(brush, plane, plane_list) ==
  [front |-> clip_plane(brush, plane, plane_list, TRUE),
   back |-> clip_plane(brush, plane, plane_list, FALSE)]

(* A CSXBSPNode is [brush_list, solid, plane_index]; the tree is a         *)
(* function from paths to nodes, the path of a node being the sequence of  *)
(* "front" / "back" steps from the root, and an Option<Box<CSXBSPNode>> is *)
(* a sequence of at most one node.                                         *)

HasFaces(brush) == Len(brush.faces) > 1

NoMoreInsertables(brush) ==
  \A j \in 1..Len(brush.faces) : brush.faces[j].used_plane

(* split_brush_list without `if no_more_insertables { .._solid = true }`   *)
SideNode_solid_only_inherited(node, side_brushes) ==
  The({IF kept = <<>> THEN <<>>
       ELSE <<[brush_list |-> kept, solid |-> node.solid, plane_index |-> NoPlane]>> :
         kept \in {SelectSeq(side_brushes, HasFaces)}})

(* split_brush_list: the front or back node made of one side's brushes     *)
SideNode(node, side_brushes) ==
  The({IF kept = <<>> THEN <<>>
       ELSE <<[brush_list |-> kept,
               solid |-> node.solid
                         \/ \E k \in 1..Len(kept) : NoMoreInsertables(kept[k]),
               plane_index |-> NoPlane]>> :
         kept \in {SelectSeq(side_brushes, HasFaces)}})

(* CSXBSPNode::split_brush_list: [front, back]                             *)
split_brush_list(node, plane_id, plane_list) ==
  The({[front |-> SideNode(node, [k \in 1..Len(halves) |-> halves[k].front]),
        back |-> SideNode(node, [k \in 1..Len(halves) |-> halves[k].back])] :
         halves \in {[k \in 1..Len(node.brush_list) |->
                        SplitBrush(node.brush_list[k], plane_id, plane_list)]}})

(* CSXBSPNode::split: the child's faces on the split plane marked used     *)
MarkUsed(node, split_plane) ==
  [brush_list |->
     [k \in 1..Len(node.brush_list) |->
        [vertices |-> node.brush_list[k].vertices,
         faces |-> [j \in 1..Len(node.brush_list[k].faces) |->
                      [node.brush_list[k].faces[j] EXCEPT
                         !.used_plane = @ \/ node.brush_list[k].faces[j].plane_id
                                               = split_plane]]]],
   solid |-> node.solid,
   plane_index |-> node.plane_index]

(* CSXBSPNode::split: unused_planes                                        *)
HasUnusedPlanes(node) ==
  \E k \in 1..Len(node.brush_list) : ~NoMoreInsertables(node.brush_list[k])

NeedsSplit_unless_solid(node) ==
  HasUnusedPlanes(node) /\ node.plane_index = NoPlane /\ ~node.solid

NeedsSplit(node) == HasUnusedPlanes(node) /\ node.plane_index = NoPlane

ChosenPlanes_of_plane_list(node) ==
  SelectSeq([i \in 1..Len(build.plane_list) |-> i - 1],
            LAMBDA p : \A k \in 1..Len(node.brush_list) :
                         \A j \in 1..Len(node.brush_list[k].faces) :
                           node.brush_list[k].faces[j].plane_id = p
                             => ~node.brush_list[k].faces[j].used_plane)

(* select_best_splitter: chosen_planes                                     *)
ChosenPlanes(node) ==
  Flatten([k \in 1..Len(node.brush_list) |->
             Flatten([j \in 1..Len(node.brush_list[k].faces) |->
                        IF node.brush_list[k].faces[j].used_plane THEN <<>>
                        ELSE <<node.brush_list[k].faces[j].plane_id>>])])

(* max_by_key over an ordered list of planes returns the last plane of     *)
(* maximal rating; out[i] are the scores calc_plane_rating can give the    *)
(* i-th plane                                                              *)
LastMaximal(planes, out) ==
  {planes[i] : i \in {i \in 1..Len(planes) :
     \E r \in out[i] :
       /\ \A j \in 1..(i - 1) : SetMin(out[j]) <= r
       /\ \A j \in (i + 1)..Len(planes) : SetMin(out[j]) < r}}

(* choose_multiple(&mut rng, 32) with rng = StdRng::seed_from_u64(42): a   *)
(* sample of at most 32 planes in a shuffled order that is the same for    *)
(* every list of one length.  The model does not compute the generator:    *)
(* the order is the list rotated by `shuffle`, a parameter of the run.     *)
FastSample(chosen, shuffle) ==
  IF chosen = <<>> THEN <<>>
  ELSE SubSeq(Rotate(chosen, shuffle % Len(chosen)), 1, Min2(SampleSize, Len(chosen)))

(* select_best_splitter (Fast): the planes it can return                   *)
select_best_splitter(node, plane_list, shuffle) ==
  The({The({LastMaximal(sample, out) :
              out \in {[i \in 1..Len(sample) |->
                          RatingOutcomes(node.brush_list, sample[i], plane_list)]}}) :
         sample \in {FastSample(ChosenPlanes(node), shuffle)}})

(* select_best_splitter_new: the 64 semi-sphere vectors, in 1e-4 units;    *)
(* sin(-PI) is 8.74e-8 in f32, so the first eight vectors differ below     *)
(* that resolution: FineVectors has their x and y in 1e-11 units.          *)
SemiSphereVectors ==
  << <<0, 0, -10000>>, <<0, 0, -10000>>, <<0, 0, -10000>>, <<0, 0, -10000>>,
     <<0, 0, -10000>>, <<0, 0, -10000>>, <<0, 0, -10000>>, <<0, 0, -10000>>,
     <<-3827, 0, -9239>>, <<-3753, -747, -9239>>, <<-3536, -1464, -9239>>,
     <<-3182, -2126, -9239>>, <<-2706, -2706, -9239>>, <<-2126, -3182, -9239>>,
     <<-1464, -3536, -9239>>, <<-747, -3753, -9239>>,
     <<-7071, 0, -7071>>, <<-6935, -1379, -7071>>, <<-6533, -2706, -7071>>,
     <<-5879, -3928, -7071>>, <<-5000, -5000, -7071>>, <<-3928, -5879, -7071>>,
     <<-2706, -6533, -7071>>, <<-1379, -6935, -7071>>,
     <<-9239, 0, -3827>>, <<-9061, -1802, -3827>>, <<-8536, -3536, -3827>>,
     <<-7682, -5133, -3827>>, <<-6533, -6533, -3827>>, <<-5133, -7682, -3827>>,
     <<-3536, -8536, -3827>>, <<-1802, -9061, -3827>>,
     <<-10000, 0, 0>>, <<-9808, -1951, 0>>, <<-9239, -3827, 0>>,
     <<-8315, -5556, 0>>, <<-7071, -7071, 0>>, <<-5556, -8315, 0>>,
     <<-3827, -9239, 0>>, <<-1951, -9808, 0>>,
     <<-9239, 0, 3827>>, <<-9061, -1802, 3827>>, <<-8536, -3536, 3827>>,
     <<-7682, -5133, 3827>>, <<-6533, -6533, 3827>>, <<-5133, -7682, 3827>>,
     <<-3536, -8536, 3827>>, <<-1802, -9061, 3827>>,
     <<-7071, 0, 7071>>, <<-6935, -1379, 7071>>, <<-6533, -2706, 7071>>,
     <<-5879, -3928, 7071>>, <<-5000, -5000, 7071>>, <<-3928, -5879, 7071>>,
     <<-2706, -6533, 7071>>, <<-1379, -6935, 7071>>,
     <<-3827, 0, 9239>>, <<-3753, -747, 9239>>, <<-3536, -1464, 9239>>,
     <<-3182, -2126, 9239>>, <<-2706, -2706, 9239>>, <<-2126, -3182, 9239>>,
     <<-1464, -3536, 9239>>, <<-747, -3753, 9239>> >>

FineVectors ==
  << <<8742, 0, 0>>, <<8574, 1706, 0>>, <<8077, 3346, 0>>, <<7269, 4857, 0>>,
     <<6182, 6182, 0>>, <<4857, 7269, 0>>, <<3346, 8077, 0>>, <<1706, 8574, 0>> >>

(* v.dot(face_plane.normal) of vector i (from 1), as <<1e-8 part, 1e-15    *)
(* part>>, compared in that order                                          *)
VectorDot(i, normal) ==
  <<Dot3(SemiSphereVectors[i], normal),
    IF i <= Len(FineVectors) THEN Dot3(FineVectors[i], normal) ELSE 0>>

DotGreater(a, b) == a[1] > b[1] \/ (a[1] = b[1] /\ a[2] > b[2])

(* max_index: the first vector of the greatest dot product above -1.0,     *)
(* 0-based; NoPlane for None                                               *)
MaxDotIndex(normal) ==
  The({IF \E i \in DOMAIN dots : DotGreater(dots[i], <<0 - NormalOne * NormalOne, 0>>)
       THEN (CHOOSE i \in DOMAIN dots :
               /\ \A j \in DOMAIN dots : ~DotGreater(dots[j], dots[i])
               /\ \A j \in 1..(i - 1) : DotGreater(dots[i], dots[j])) - 1
       ELSE NoPlane :
         dots \in {[i \in 1..Len(SemiSphereVectors) |-> VectorDot(i, normal)]}})

(* the first occurrences of a sequence's elements                          *)
Deduplicated(s) ==
  Flatten([i \in 1..Len(s) |->
             IF \E j \in 1..(i - 1) : s[j] = s[i] THEN <<>> ELSE <<s[i]>>])

(* p_list of every vector: the unused planes quantized to it, in order     *)
VectorPlanes(planes, plane_list) ==
  The({[v \in 1..Len(SemiSphereVectors) |->
          Flatten([i \in 1..Len(planes) |->
                     IF at[i] = v - 1 THEN <<planes[i]>> ELSE <<>>])] :
         at \in {[i \in 1..Len(planes) |->
                    MaxDotIndex(plane_list[planes[i] + 1].normal)]}})

(* p_list.sort_by(distance) (a stable sort), then pl[pl.len() / 2]         *)
MedianByDistance(p_list, plane_list) ==
  p_list[CHOOSE i \in 1..Len(p_list) :
           Cardinality({j \in 1..Len(p_list) :
              \/ plane_list[p_list[j] + 1].distance < plane_list[p_list[i] + 1].distance
              \/ /\ plane_list[p_list[j] + 1].distance = plane_list[p_list[i] + 1].distance
                 /\ j < i}) = Len(p_list) \div 2]

LeastDepthPlanes(node, plane_list) ==
  The({Flatten([v \in 1..Len(vector_planes) |->
                  IF vector_planes[v] = <<>> THEN <<>>
                  ELSE <<MedianByDistance(vector_planes[v], plane_list)>>]) :
         vector_planes \in {VectorPlanes(Deduplicated(ChosenPlanes(node)), plane_list)}})

(* select_best_splitter_new (Exhaustive): the planes it can return         *)
select_best_splitter_new(node, plane_list) ==
  The({The({LastMaximal(ldp, out) :
              out \in {[i \in 1..Len(ldp) |->
                          RatingOutcomes(node.brush_list, ldp[i], plane_list)]}}) :
         ldp \in {LeastDepthPlanes(node, plane_list)}})

(* CSXBSPNode::split of the node at `path` by split_plane: the tree with   *)
(* the node's children added                                               *)
SplitTree(tree, path, split_plane, children) ==
  [p \in DOMAIN tree
         \cup (IF children.front = <<>> THEN {} ELSE {Append(path, "front")})
         \cup (IF children.back = <<>> THEN {} ELSE {Append(path, "back")}) |->
     IF p = path
     THEN [brush_list |-> <<>>, solid |-> tree[path].solid, plane_index |-> split_plane]
     ELSE IF p \in DOMAIN tree THEN tree[p]
     ELSE IF p = Append(path, "front") THEN MarkUsed(children.front[1], split_plane)
     ELSE MarkUsed(children.back[1], split_plane)]

(* the children of `path` that CSXBSPNode::split goes on to split, front   *)
(* first                                                                   *)
ChildrenToSplit(tree, path) ==
  (IF Append(path, "front") \in DOMAIN tree /\ NeedsSplit(tree[Append(path, "front")])
   THEN <<Append(path, "front")>> ELSE <<>>)
    \o (IF Append(path, "back") \in DOMAIN tree /\ NeedsSplit(tree[Append(path, "back")])
        THEN <<Append(path, "back")>> ELSE <<>>)

EmptyNode == [brush_list |-> <<>>, solid |-> FALSE, plane_index |-> NoPlane]

(* build_bsp with SplitMethod::None: the root under plane 0 with two empty *)
(* children                                                                *)
DegenerateTree(csx_brushes) ==
  [p \in {<<>>, <<"front">>, <<"back">>} |->
     IF p = <<>>
     THEN [brush_list |-> csx_brushes, solid |-> FALSE, plane_index |-> 0]
     ELSE EmptyNode]

(* CSXBSPNode::from_brushes                                                *)
RootTree(csx_brushes) ==
  [p \in {<<>>} |-> [brush_list |-> csx_brushes, solid |-> FALSE, plane_index |-> NoPlane]]

---------------------------------------------------------------------------
(* builder.rs: export_bsp_node and export_coord_bins.                      *)

(* the empty leaf BSPIndex {leaf: true, solid: false, index: 0}            *)
Sentinel == [leaf |-> TRUE, solid |-> FALSE, index |-> 0]

(* the surface indices a solid leaf pushes: the surface of every face of   *)
(* its brushes, each once                                                  *)
LeafSurfaces(b, node) ==
  Deduplicated(
    Flatten([k \in 1..Len(node.brush_list) |->
               [j \in 1..Len(node.brush_list[k].faces) |->
                  b.face_to_surface[IdMapFind(b.face_to_surface,
                                              node.brush_list[k].faces[j].id)].val]]))

(* export_bsp_node of a node without a plane, with the slip of returning   *)
(* the solid leaf's index without its solid flag                           *)
ExportLeaf_flag_dropped(b, node) ==
  IF ~node.solid THEN [b |-> b, r |-> Sentinel]
  ELSE The({IF surfs = <<>> THEN [b |-> b, r |-> Sentinel]
            ELSE [b |-> [b EXCEPT
                           !.solid_leaf_surfaces = @ \o surfs,
                           !.bsp_solid_leaves =
                              Append(@, [surface_count |-> Len(surfs),
                                         surface_index |-> Len(b.solid_leaf_surfaces)])],
                  r |-> [leaf |-> TRUE, solid |-> FALSE,
                         index |-> Len(b.bsp_solid_leaves)]] :
              surfs \in {LeafSurfaces(b, node)}})

(* export_bsp_node of a node without a plane                               *)
ExportLeaf(b, node) ==
  IF ~node.solid THEN [b |-> b, r |-> Sentinel]
  ELSE The({IF surfs = <<>> THEN [b |-> b, r |-> Sentinel]
            ELSE [b |-> [b EXCEPT
                           !.solid_leaf_surfaces = @ \o surfs,
                           !.bsp_solid_leaves =
                              Append(@, [surface_count |-> Len(surfs),
                                         surface_index |-> Len(b.solid_leaf_surfaces)])],
                  r |-> [leaf |-> TRUE, solid |-> TRUE,
                         index |-> Len(b.bsp_solid_leaves)]] :
              surfs \in {LeafSurfaces(b, node)}})

(* the node written with the slip of leaving the reserved front_index      *)
NodeLinked_front_reserved(b, node_index, plane_index, front_index, back_index) ==
  [b |-> [b EXCEPT !.bsp_nodes[node_index + 1] =
            [plane_index |-> plane_index % FlipBit,
             front_index |-> Sentinel,
             back_index |-> IF plane_index >= FlipBit THEN front_index ELSE back_index]],
   r |-> [leaf |-> FALSE, solid |-> FALSE, index |-> node_index]]

(* the node written with the slip of never swapping the children           *)
NodeLinked_unswapped(b, node_index, plane_index, front_index, back_index) ==
  [b |-> [b EXCEPT !.bsp_nodes[node_index + 1] =
            [plane_index |-> plane_index % FlipBit,
             front_index |-> front_index,
             back_index |-> back_index]],
   r |-> [leaf |-> FALSE, solid |-> FALSE, index |-> node_index]]

(* export_bsp_node of a node with a plane, past its children: the node     *)
(* written at node_index                                                   *)
NodeLinked(b, node_index, plane_index, front_index, back_index) ==
  [b |-> [b EXCEPT !.bsp_nodes[node_index + 1] =
            [plane_index |-> plane_index % FlipBit,
             front_index |-> IF plane_index >= FlipBit THEN back_index ELSE front_index,
             back_index |-> IF plane_index >= FlipBit THEN front_index ELSE back_index]],
   r |-> [leaf |-> FALSE, solid |-> FALSE, index |-> node_index]]

(* DIFBuilder::export_bsp_node of the node at `path`                       *)
RECURSIVE export_bsp_node(_, _, _, _)
export_bsp_node(b, tree, plane_list, path) ==
  IF tree[path].plane_index = NoPlane THEN ExportLeaf(b, tree[path])
  ELSE The({The({The({NodeLinked(back.b, Len(b.bsp_nodes), pl.r, front.r, back.r) :
         back \in {IF Append(path, "back") \in DOMAIN tree
                   THEN export_bsp_node(front.b, tree, plane_list, Append(path, "back"))
                   ELSE [b |-> front.b, r |-> Sentinel]}}) :
         front \in {IF Append(path, "front") \in DOMAIN tree
                    THEN export_bsp_node(pl.b, tree, plane_list, Append(path, "front"))
                    ELSE [b |-> pl.b, r |-> Sentinel]}}) :
         pl \in {export_plane(
                   [b EXCEPT !.bsp_nodes =
                      Append(@, [plane_index |-> 0, front_index |-> Sentinel,
                                 back_index |-> Sentinel])],
                   plane_list[tree[path].plane_index + 1])}})

(* get_bounding_box: the box around the vertices of all brushes            *)
get_bounding_box(brushes) ==
  BoxFromVertices(Flatten([k \in 1..Len(brushes) |-> brushes[k].vertices]))

(* the bin test with the slip of leaving out hulls that only touch the     *)
(* bin's edge                                                              *)
BinTakesHull_strict(bb, hull, i, j) ==
  ~ \/ 16 * bb.min[1] + i * (bb.max[1] - bb.min[1]) >= 16 * hull.max[1]
    \/ 16 * bb.min[1] + (i + 1) * (bb.max[1] - bb.min[1]) <= 16 * hull.min[1]
    \/ 16 * bb.min[2] + j * (bb.max[2] - bb.min[2]) >= 16 * hull.max[2]
    \/ 16 * bb.min[2] + (j + 1) * (bb.max[2] - bb.min[2]) <= 16 * hull.min[2]

(* export_coord_bins: whether bin (i, j) of the 16 x 16 grid over the      *)
(* bounding box takes the hull.  Coordinates are whole numbers, so         *)
(* min + i * extent / 16 is exact in f32; both sides are scaled by 16.     *)
BinTakesHull(bb, hull, i, j) ==
  ~ \/ 16 * bb.min[1] + i * (bb.max[1] - bb.min[1]) > 16 * hull.max[1]
    \/ 16 * bb.min[1] + (i + 1) * (bb.max[1] - bb.min[1]) < 16 * hull.min[1]
    \/ 16 * bb.min[2] + j * (bb.max[2] - bb.min[2]) > 16 * hull.max[2]
    \/ 16 * bb.min[2] + (j + 1) * (bb.max[2] - bb.min[2]) < 16 * hull.min[2]

(* the hull indices bin (i, j) pushes                                      *)
BinHulls(b, bb, i, j) ==
  Flatten([k \in 1..Len(b.convex_hulls) |->
             IF BinTakesHull(bb, b.convex_hulls[k], i, j) THEN <<k - 1>> ELSE <<>>])

(* the inner loop of export_coord_bins over j, for row i; acc is           *)
(* [coord_bins, coord_bin_indices] so far                                  *)
RECURSIVE ExportBinRow(_, _, _, _, _)
ExportBinRow(acc, b, bb, i, j) ==
  IF j >= 16 THEN acc
  ELSE The({The({ExportBinRow(a, b, bb, i, j + 1) :
              a \in {[coord_bins |-> [acc.coord_bins EXCEPT ![i * 16 + j + 1] =
                                        [bin_start |-> Len(acc.coord_bin_indices),
                                         bin_count |-> Len(hulls)]],
                      coord_bin_indices |-> acc.coord_bin_indices \o hulls]}}) :
              hulls \in {BinHulls(b, bb, i, j)}})

RECURSIVE ExportBinRows(_, _, _, _)
ExportBinRows(acc, b, bb, i) ==
  IF i >= 16 THEN acc
  ELSE The({ExportBinRows(row, b, bb, i + 1) : row \in {ExportBinRow(acc, b, bb, i, 0)}})

(* DIFBuilder::export_coord_bins; bb is interior.bounding_box              *)
export_coord_bins(b, bb) ==
  The({[b EXCEPT !.coord_bins = acc.coord_bins,
                 !.coord_bin_indices = acc.coord_bin_indices] :
         acc \in {ExportBinRows(
                    [coord_bins |-> b.coord_bins
                                      \o [n \in 1..256 |-> [bin_start |-> n - 1,
                                                            bin_count |-> 1]],
                     coord_bin_indices |-> b.coord_bin_indices],
                    b, bb, 0)}})

---------------------------------------------------------------------------
(* DIFBuilder::build of one scene (SpecBuild): the hulls of the brushes,   *)
(* build_bsp node by node, export_bsp_node, then export_coord_bins.        *)

(* a frustum: the square 8..16 at height 8 over the square 2..22 at height *)
(* 0, its sides sloping 3 out for every 4 down; face ids id0..id0+5        *)
FrustumBrush(id0) ==
  [vertices |-> << <<2, 2, 0>>, <<22, 2, 0>>, <<22, 22, 0>>, <<2, 22, 0>>,
                   <<8, 8, 8>>, <<16, 8, 8>>, <<16, 16, 8>>, <<8, 16, 8>> >>,
   face |-> << Face(id0, <<0, 0, -10000>>, 0, <<0, 3, 2, 1>>),
               Face(id0 + 1, <<0, 0, 10000>>, -8000000, <<4, 5, 6, 7>>),
               Face(id0 + 2, <<0, -8000, 6000>>, 1600000, <<0, 1, 5, 4>>),
               Face(id0 + 3, <<0, 8000, 6000>>, -17600000, <<2, 3, 7, 6>>),
               Face(id0 + 4, <<-8000, 0, 6000>>, 1600000, <<3, 0, 4, 7>>),
               Face(id0 + 5, <<8000, 0, 6000>>, -17600000, <<1, 2, 6, 5>>) >>]

(* The scenes: a box; two boxes sharing a wall; two boxes apart; and a     *)
(* pillar sunk through the top of a frustum to half the frustum's height   *)
(* (the two brushes overlap; the pillar's footprint is the frustum's top). *)
BuildBrushLists ==
  { <<BoxBrush(<<0, 0, 0>>, <<4, 4, 4>>, 0)>>,
    <<BoxBrush(<<0, 0, 0>>, <<4, 4, 4>>, 0), BoxBrush(<<4, 0, 0>>, <<8, 4, 2>>, 6)>>,
    <<BoxBrush(<<0, 0, 0>>, <<4, 4, 4>>, 0), BoxBrush(<<12, 8, 0>>, <<16, 16, 4>>, 6)>>,
    <<FrustumBrush(0), BoxBrush(<<8, 8, 4>>, <<16, 16, 12>>, 6)>> }

(* number of shuffle orders of choose_multiple a behaviour can have        *)
MaxShuffle == 2
Shuffles == 0..(MaxShuffle - 1)

BuildScenes == [brushes : BuildBrushLists, ents : {<<>>}, mb_only : BOOLEAN]

InitBuild ==
  /\ cfg \in [point_epsilon : {POINT_EPSILON}, split_method : SplitMethods]
  /\ IdleIntern
  /\ scene \in BuildScenes
  /\ run = <<>>
  /\ console = <<>>
  /\ grouping = <<>>
  /\ atlas = <<>>
  /\ cast = <<>>
  /\ fan = <<>>
  /\ emit = <<>>
  /\ convert = <<>>
  /\ clip = <<>>
  /\ \E seed \in Seeds, shuffle \in Shuffles :
       build = [pc |-> "hulls",
                seed |-> seed,
                shuffle |-> shuffle,
                b |-> NewBuilder(scene.mb_only),
                bounding_box |-> get_bounding_box(scene.brushes),
                plane_list |-> <<>>,
                tree |-> <<>>,
                stack |-> <<>>,
                root |-> Sentinel]
  /\ IdleRating

(* export_brushes: one iteration of the loop, export_convex_hull(i)        *)
BuildExportHull ==
  /\ build.pc = "hulls"
  /\ \E res \in {export_convex_hull(build.b,
                                     scene.brushes[Len(build.b.convex_hulls) + 1],
                                     build.seed)} :
       build' = [build EXCEPT
                   !.b = res.b,
                   !.pc = IF Len(res.b.convex_hulls) = Len(scene.brushes)
                          THEN "build_bsp" ELSE "hulls"]
  /\ UNCHANGED <<cfg, internVars, runVars, rating>>

(* build_bsp up to the call of root.split                                  *)
BuildBsp ==
  /\ build.pc = "build_bsp"
  /\ \E csx_brushes \in {CSXBrushes(scene.brushes)} :
     \E tree \in {IF cfg.split_method = "None" THEN DegenerateTree(csx_brushes)
                  ELSE RootTree(csx_brushes)} :
       build' = [build EXCEPT
                   !.plane_list = PlaneListOf(scene.brushes),
                   !.tree = tree,
                   !.stack = IF NeedsSplit(tree[<<>>]) THEN << <<>> >> ELSE <<>>,
                   !.pc = IF NeedsSplit(tree[<<>>]) THEN "split" ELSE "export_bsp"]
  /\ UNCHANGED <<cfg, internVars, runVars, rating>>

(* the planes CSXBSPNode::split can get from the configured selection      *)
Splitters(node, plane_list) ==
  IF cfg.split_method = "Fast"
  THEN select_best_splitter(node, plane_list, build.shuffle)
  ELSE select_best_splitter_new(node, plane_list)

(* CSXBSPNode::split of the next node in depth-first order, front first:   *)
(* the splitter is selected, the brush list is split, the children are     *)
(* made and their faces on the plane marked                                *)
SplitNode ==
  /\ build.pc = "split"
  /\ \E path \in {Head(build.stack)} :
     \E split_plane \in Splitters(build.tree[path], build.plane_list) :
     \E tree \in {SplitTree(build.tree, path, split_plane,
                            split_brush_list(build.tree[path], split_plane,
                                             build.plane_list))} :
     \E stack \in {ChildrenToSplit(tree, path) \o Tail(build.stack)} :
       build' = [build EXCEPT
                   !.tree = tree,
                   !.stack = stack,
                   !.pc = IF stack = <<>> THEN "export_bsp" ELSE "split"]
  /\ UNCHANGED <<cfg, internVars, runVars, rating>>

(* export_brushes: self.export_bsp_node(&bsp_root, &plane_remap)           *)
ExportBspNode ==
  /\ build.pc = "export_bsp"
  /\ \E res \in {export_bsp_node(build.b, build.tree, build.plane_list, <<>>)} :
       build' = [build EXCEPT !.b = res.b, !.root = res.r, !.pc = "coord_bins"]
  /\ UNCHANGED <<cfg, internVars, runVars, rating>>

(* build: self.export_coord_bins()                                         *)
ExportCoordBins ==
  /\ build.pc = "coord_bins"
  /\ \E b \in {export_coord_bins(build.b, build.bounding_box)} :
       build' = [build EXCEPT !.b = b, !.pc = "done"]
  /\ UNCHANGED <<cfg, internVars, runVars, rating>>

NextBuild ==
  \/ BuildExportHull
  \/ BuildBsp
  \/ SplitNode
  \/ ExportBspNode
  \/ ExportCoordBins

SpecBuild == InitBuild /\ [][NextBuild]_vars

(* export_brushes has returned: the BSP is written                         *)
BspExported == build # <<>> /\ build.pc \in {"coord_bins", "done"}

(* the BSPIndex values that refer to a child: the root's and those written *)
(* in the node array                                                       *)
LinkedChildren ==
  {build.root} \cup UNION {{build.b.bsp_nodes[n].front_index,
                            build.b.bsp_nodes[n].back_index} :
                             n \in 1..Len(build.b.bsp_nodes)}

(* the surfaces in the solid_leaf_surfaces range of solid leaf `index`     *)
SurfacesOfLeaf(index) ==
  {build.b.solid_leaf_surfaces[build.b.bsp_solid_leaves[index + 1].surface_index + k] :
     k \in 1..build.b.bsp_solid_leaves[index + 1].surface_count}

SurfaceInLinkedLeaf(s) ==
  \E c \in LinkedChildren : c.leaf /\ c.solid /\ s \in SurfacesOfLeaf(c.index)

(* C7: after export_brushes with split method Fast or Exhaustive, every    *)
(* surface of interior.surfaces is in the solid_leaf_surfaces range of a   *)
(* solid leaf that the node array refers to.                               *)
C7_EverySurfaceInSolidLeaf ==
  (BspExported /\ cfg.split_method # "None")
    => \A s \in 0..(Len(build.b.surfaces) - 1) : SurfaceInLinkedLeaf(s)

(* a node of the node array has a child that is not the sentinel           *)
HasLinkedChild(node) == node.front_index # Sentinel \/ node.back_index # Sentinel

(* C8 as stated: in the linked BSP, for every split method (Fast,          *)
(* Exhaustive and None), every entry of bsp_nodes has at least one child   *)
(* that is not the empty-leaf sentinel.                                    *)
C8_EveryNodeHasChild ==
  BspExported => \A n \in 1..Len(build.b.bsp_nodes) : HasLinkedChild(build.b.bsp_nodes[n])

(* C8, amended: with split method Fast or Exhaustive every entry of        *)
(* bsp_nodes has at least one child that is not the sentinel; with None    *)
(* bsp_nodes is the single node of plane 0, whose children are both the    *)
(* sentinel.                                                               *)
C8_SplitNodesHaveChild ==
  BspExported =>
    IF cfg.split_method = "None"
    THEN /\ Len(build.b.bsp_nodes) = 1
         /\ ~HasLinkedChild(build.b.bsp_nodes[1])
    ELSE \A n \in 1..Len(build.b.bsp_nodes) : HasLinkedChild(build.b.bsp_nodes[n])

(* a tree built by splitting is linked: some node has the sentinel on one  *)
(* side and a child on the other                                           *)
C8_Witness ==
  /\ BspExported
  /\ cfg.split_method # "None"
  /\ \E n \in 1..Len(build.b.bsp_nodes) :
       /\ HasLinkedChild(build.b.bsp_nodes[n])
       /\ Sentinel \in {build.b.bsp_nodes[n].front_index, build.b.bsp_nodes[n].back_index}

(* export_coord_bins has returned                                          *)
BinsExported == build # <<>> /\ build.pc = "done"

(* the hulls (0-based) whose XY box meets the rectangle of bin (i, j): the *)
(* two closed rectangles share a point; all sides scaled by 16             *)
HullsMeetingBin(i, j) ==
  LET bb == build.bounding_box
      bin_min_x == 16 * bb.min[1] + i * (bb.max[1] - bb.min[1])
      bin_max_x == 16 * bb.min[1] + (i + 1) * (bb.max[1] - bb.min[1])
      bin_min_y == 16 * bb.min[2] + j * (bb.max[2] - bb.min[2])
      bin_max_y == 16 * bb.min[2] + (j + 1) * (bb.max[2] - bb.min[2])
  IN  {k - 1 : k \in {k \in 1..Len(build.b.convex_hulls) :
         /\ 16 * build.b.convex_hulls[k].min[1] <= bin_max_x
         /\ bin_min_x <= 16 * build.b.convex_hulls[k].max[1]
         /\ 16 * build.b.convex_hulls[k].min[2] <= bin_max_y
         /\ bin_min_y <= 16 * build.b.convex_hulls[k].max[2]}}

(* the range [bin_start, bin_start + bin_count) of coord_bin_indices owned *)
(* by bin n (from 1)                                                       *)
BinRange(n) ==
  [k \in 1..build.b.coord_bins[n].bin_count |->
     build.b.coord_bin_indices[build.b.coord_bins[n].bin_start + k]]

(* C9: after export_coord_bins there are exactly 256 bins; the ranges of   *)
(* consecutive bins are adjacent, start at 0 and end at the length of      *)
(* coord_bin_indices; and the range of bin i*16+j holds the index of every *)
(* hull whose XY box meets the bin's rectangle exactly once, and no other. *)
C9_CoordBins ==
  BinsExported =>
    /\ Len(build.b.coord_bins) = 256
    /\ build.b.coord_bins[1].bin_start = 0
    /\ \A n \in 1..255 :
         build.b.coord_bins[n + 1].bin_start
           = build.b.coord_bins[n].bin_start + build.b.coord_bins[n].bin_count
    /\ build.b.coord_bins[256].bin_start + build.b.coord_bins[256].bin_count
         = Len(build.b.coord_bin_indices)
    /\ \A i, j \in 0..15 :
         /\ NoRepeats(BinRange(i * 16 + j + 1))
         /\ Range(BinRange(i * 16 + j + 1)) = HullsMeetingBin(i, j)

(* bins were written for a scene in which some bin holds no hull, some bin *)
(* holds a hull, and some hull ends exactly on a bin's edge                *)
C9_Witness ==
  /\ BinsExported
  /\ \E n \in 1..256 : build.b.coord_bins[n].bin_count = 0
  /\ \E n \in 1..256 : build.b.coord_bins[n].bin_count > 0
  /\ \E k \in 1..Len(build.b.convex_hulls) : \E i \in 1..15 :
       16 * build.b.convex_hulls[k].max[1]
         = 16 * build.bounding_box.min[1]
             + i * (build.bounding_box.max[1] - build.bounding_box.min[1])

---------------------------------------------------------------------------
(* One call of calc_plane_rating (SpecRating): brush_list.par_iter() runs  *)
(* calculate_split_rating of every brush as a task; a task first reads     *)
(* considered_planes under the lock, then scans its faces and, on a        *)
(* match, takes the lock again to insert.  The set only ever holds the     *)
(* candidate plane, so it is the flag `considered`.                        *)

(* the brush lists of a node under rating: those of the build scenes, and  *)
(* a frustum beside a box whose corners lie 0.2, 1.8 and 4.2 behind and    *)
(* 2.2 in front of the frustum's sloping side                              *)
RatingBrushLists ==
  BuildBrushLists
    \cup { <<FrustumBrush(0), BoxBrush(<<0, 3, 1>>, <<4, 8, 5>>, 6)>> }

InitRating ==
  /\ cfg = DefaultConfig
  /\ IdleIntern
  /\ IdleRuns
  /\ IdleBuild
  /\ \E brushes \in RatingBrushLists :
     \E plane_id \in 0..(Len(PlaneListOf(brushes)) - 1) :
       rating = [brush_list |-> CSXBrushes(brushes),
                 plane_list |-> PlaneListOf(brushes),
                 plane_id |-> plane_id,
                 considered |-> FALSE,
                 task |-> [k \in 1..Len(brushes) |->
                             [pc |-> "check", contained |-> FALSE,
                              result |-> <<0, 0, 0, 0, 0>>]],
                 pc |-> "map",
                 score |-> 0]

(* task k: considered_planes.lock().unwrap().borrow().contains(&plane_id)  *)
ReadConsidered(k) ==
  /\ rating.pc = "map"
  /\ rating.task[k].pc = "check"
  /\ rating' = [rating EXCEPT !.task[k].contained = rating.considered,
                              !.task[k].pc = "scan"]
  /\ UNCHANGED <<cfg, internVars, runVars, build>>

(* task k: the rest of calculate_split_rating, with the insert on a match  *)
FinishSplitRating(k) ==
  /\ rating.pc = "map"
  /\ rating.task[k].pc = "scan"
  /\ rating' = [rating EXCEPT
       !.task[k].result =
          calculate_split_rating(rating.brush_list[k], rating.plane_id,
                                 rating.plane_list, rating.task[k].contained),
       !.task[k].pc = "done",
       !.considered = @ \/ InsertsConsidered(rating.brush_list[k], rating.plane_id,
                                             rating.plane_list, rating.task[k].contained)]
  /\ UNCHANGED <<cfg, internVars, runVars, build>>

(* the reduce and the final score                                          *)
ReduceRatings ==
  /\ rating.pc = "map"
  /\ \A k \in DOMAIN rating.task : rating.task[k].pc = "done"
  /\ rating' = [rating EXCEPT
       !.score = ScoreOfRatings(rating.plane_list[rating.plane_id + 1],
                                [k \in DOMAIN rating.task |-> rating.task[k].result]),
       !.pc = "done"]
  /\ UNCHANGED <<cfg, internVars, runVars, build>>

NextRating ==
  \/ \E k \in DOMAIN rating.task : ReadConsidered(k)
  \/ \E k \in DOMAIN rating.task : FinishSplitRating(k)
  \/ ReduceRatings

SpecRating == InitRating /\ [][NextRating]_vars

(* the score of the call when the tasks run one after the other in list    *)
(* order: only the first brush holding the plane reads the set empty       *)
SequentialScore ==
  calc_plane_rating(rating.brush_list, rating.plane_id, rating.plane_list,
                    {SetMin(PlaneHolders(rating.brush_list, rating.plane_id,
                                         rating.plane_list))})

(* C6: for a fixed node and candidate plane, calc_plane_rating returns the *)
(* same score under every scheduling of the per-brush tasks: the score of  *)
(* every schedule is the score of the schedule that runs the tasks in list *)
(* order.                                                                  *)
C6_RatingScheduleIndependent ==
  (rating # <<>> /\ rating.pc = "done") => rating.score = SequentialScore

---------------------------------------------------------------------------
(* convert_csx, the interiors (SpecConvert): the split_interiors loop of   *)
(* every detail level, the Dif of the first interiors, the sub-objects     *)
(* and the output buffers.  A brush is its type_, its owner and `faces`,   *)
(* its face.len(); a builder is the list of the (1-based) positions in the   *)
(* detail level of the brushes added to it; an interior is a built         *)
(* builder.                                                                *)

MAX_FACES == 16383

PassesFilter(b) == (b.type_ # 999 /\ b.type_ # 4) \/ b.owner = 0

NeedsFlush_inclusive(cur_face_count, face_count) ==
  cur_face_count + face_count >= MAX_FACES

NeedsFlush(cur_face_count, face_count) ==
  cur_face_count + face_count > MAX_FACES

RECURSIVE FaceCount(_, _)
FaceCount(brushes, ids) ==
  IF ids = <<>> THEN 0
  ELSE brushes[Head(ids)].faces + FaceCount(brushes, Tail(ids))

(* cur_builder.build(..) of detail level `level`                           *)
BuiltInterior(level, builder) == [level |-> level, brushes |-> builder]

(* .group_by(|b| b.owner): runs of consecutive equal keys, in order        *)
RECURSIVE GroupBy(_, _, _)
GroupBy(brushes, ids, groups) ==
  IF ids = <<>> THEN groups
  ELSE LET key == brushes[Head(ids)].owner
           n == Len(groups)
       IN  IF n > 0 /\ groups[n].key = key
           THEN GroupBy(brushes, Tail(ids),
                        [groups EXCEPT ![n].ids = Append(@, Head(ids))])
           ELSE GroupBy(brushes, Tail(ids),
                        Append(groups, [key |-> key, ids |-> <<Head(ids)>>]))

(* .sorted_by(|(a, _), (b, _)| a.cmp(b)): a stable sort on the key         *)
RECURSIVE SortedByKey(_)
SortedByKey(groups) ==
  IF groups = <<>> THEN <<>>
  ELSE LET least == SetMin({groups[i].key : i \in 1..Len(groups)})
           first == SetMin({i \in 1..Len(groups) : groups[i].key = least})
       IN  <<groups[first]>> \o
           SortedByKey(SubSeq(groups, 1, first - 1) \o
                       SubSeq(groups, first + 1, Len(groups)))

OwnedBrushes(brushes) ==
  SelectSeq([i \in 1..Len(brushes) |-> i], LAMBDA i : brushes[i].owner # 0)

(* the sub-object interiors of one detail level                            *)
LevelSubObjects(level, brushes) ==
  LET groups == SortedByKey(GroupBy(brushes, OwnedBrushes(brushes), <<>>))
  IN  [g \in 1..Len(groups) |->
         [level |-> level, owner |-> groups[g].key, brushes |-> groups[g].ids]]

dif_with_interiors(interiors) == [interiors |-> interiors, sub_objects |-> <<>>]

BrushKinds ==
  { [type_ |-> 0, owner |-> 0, faces |-> 6],
    [type_ |-> 999, owner |-> 0, faces |-> MAX_FACES],
    [type_ |-> 0, owner |-> 1, faces |-> 6],
    [type_ |-> 4, owner |-> 2, faces |-> 6],
    [type_ |-> 999, owner |-> 1, faces |-> 6],
    [type_ |-> 0, owner |-> 0, faces |-> MAX_FACES + 1] }

MaxBrushes == 3
MaxLevels == 2

(* the brush lists of a first detail level                                 *)
LevelLists == UNION {[1..n -> BrushKinds] : n \in 0..MaxBrushes}

(* the brush lists of the detail levels after the first                    *)
LaterLevels ==
  { <<[type_ |-> 0, owner |-> 0, faces |-> 6]>>,
    <<[type_ |-> 999, owner |-> 0, faces |-> MAX_FACES],
      [type_ |-> 0, owner |-> 0, faces |-> 6]>>,
    <<[type_ |-> 4, owner |-> 2, faces |-> 6],
      [type_ |-> 0, owner |-> 1, faces |-> 6]>> }

ConvertScenes ==
  UNION {{<<first>> \o later : later \in [1..n -> LaterLevels]} :
           first \in LevelLists, n \in 0..(MaxLevels - 1)}

InitConvert ==
  /\ cfg = DefaultConfig
  /\ IdleIntern
  /\ scene = <<>>
  /\ run = <<>>
  /\ console = <<>>
  /\ grouping = <<>>
  /\ atlas = <<>>
  /\ cast = <<>>
  /\ fan = <<>>
  /\ emit = <<>>
  /\ clip = <<>>
  /\ IdleBuild
  /\ IdleRating
  /\ \E levels \in ConvertScenes :
       convert = [detail_level |-> levels,
                  pc |-> "brushes",
                  level |-> 1,
                  next |-> 1,
                  cur_builder |-> <<>>,
                  cur_face_count |-> 0,
                  split_interiors |-> <<>>,
                  detail_levels |-> <<>>,
                  dif |-> <<>>,
                  dif_data |-> <<>>,
                  built |-> <<>>]

(* one step of the brush iterator of the current detail level: the brush   *)
(* is skipped by the filter, or added after the flush it may need          *)
AddBrush ==
  /\ convert # <<>>
  /\ convert.pc = "brushes"
  /\ convert.next <= Len(convert.detail_level[convert.level])
  /\ LET b == convert.detail_level[convert.level][convert.next]
         flush == NeedsFlush(convert.cur_face_count, b.faces)
     IN  convert' =
           IF ~PassesFilter(b)
           THEN [convert EXCEPT !.next = @ + 1]
           ELSE [convert EXCEPT
                   !.next = @ + 1,
                   !.split_interiors =
                      IF flush
                      THEN Append(@, BuiltInterior(convert.level, convert.cur_builder))
                      ELSE @,
                   !.built =
                      IF flush
                      THEN Append(@, BuiltInterior(convert.level, convert.cur_builder))
                      ELSE @,
                   !.cur_builder =
                      IF flush THEN <<convert.next>> ELSE Append(@, convert.next),
                   !.cur_face_count =
                      IF flush THEN b.faces ELSE @ + b.faces]
  /\ UNCHANGED <<cfg, internVars, scene, run, clip, emit, fan, cast, atlas, grouping, console, build, rating>>

(* the end of a detail level's closure: the last builder is built and the  *)
(* next level starts with a new builder                                    *)
FinishLevel ==
  /\ convert # <<>>
  /\ convert.pc = "brushes"
  /\ convert.next > Len(convert.detail_level[convert.level])
  /\ convert' = [convert EXCEPT
       !.detail_levels =
          Append(@, Append(convert.split_interiors,
                           BuiltInterior(convert.level, convert.cur_builder))),
       !.built = Append(@, BuiltInterior(convert.level, convert.cur_builder)),
       !.split_interiors = <<>>,
       !.cur_builder = <<>>,
       !.cur_face_count = 0,
       !.next = 1,
       !.level = IF convert.level = Len(convert.detail_level) THEN @ ELSE @ + 1,
       !.pc = IF convert.level = Len(convert.detail_level) THEN "dif" ELSE "brushes"]
  /\ UNCHANGED <<cfg, internVars, scene, run, clip, emit, fan, cast, atlas, grouping, console, build, rating>>

(* dif_with_interiors of d.remove(0) of every detail level                 *)
FirstInteriors ==
  /\ convert # <<>>
  /\ convert.pc = "dif"
  /\ convert' = [convert EXCEPT
       !.dif = dif_with_interiors([d \in 1..Len(convert.detail_levels) |->
                                     Head(convert.detail_levels[d])]),
       !.detail_levels = [d \in 1..Len(convert.detail_levels) |->
                            Tail(convert.detail_levels[d])],
       !.pc = "sub_objects"]
  /\ UNCHANGED <<cfg, internVars, scene, run, clip, emit, fan, cast, atlas, grouping, console, build, rating>>

(* dif.sub_objects: the groups of every detail level                       *)
SubObjects ==
  /\ convert # <<>>
  /\ convert.pc = "sub_objects"
  /\ convert' = [convert EXCEPT
       !.dif.sub_objects =
          Flatten([d \in 1..Len(convert.detail_level) |->
                     LevelSubObjects(d, convert.detail_level[d])]),
       !.pc = "write"]
  /\ UNCHANGED <<cfg, internVars, scene, run, clip, emit, fan, cast, atlas, grouping, console, build, rating>>

(* the split interiors: detail_levels.remove(0), one Dif each, dif first   *)
WriteDifs ==
  /\ convert # <<>>
  /\ convert.pc = "write"
  /\ LET split_interiors == Head(convert.detail_levels)
         split_difs == [i \in 1..Len(split_interiors) |->
                          dif_with_interiors(<<split_interiors[i]>>)]
     IN  convert' = [convert EXCEPT
           !.detail_levels = Tail(@),
           !.dif_data = <<convert.dif>> \o split_difs,
           !.pc = "done"]
  /\ UNCHANGED <<cfg, internVars, scene, run, clip, emit, fan, cast, atlas, grouping, console, build, rating>>

NextConvert ==
  \/ AddBrush
  \/ FinishLevel
  \/ FirstInteriors
  \/ SubObjects
  \/ WriteDifs

SpecConvert == InitConvert /\ [][NextConvert]_vars

(* the positions of the brushes of level d, among the first n, that pass   *)
(* the filter                                                              *)
FilteredBrushes(d, n) ==
  SelectSeq([i \in 1..n |-> i],
            LAMBDA i : PassesFilter(convert.detail_level[d][i]))

(* the brushes of the builders of level d, built or current, in order      *)
BuilderBrushes(d) ==
  LET ofLevel == SelectSeq(convert.built, LAMBDA itr : itr.level = d)
  IN  Flatten([k \in 1..Len(ofLevel) |-> ofLevel[k].brushes]) \o
      (IF convert.pc = "brushes" /\ convert.level = d
       THEN convert.cur_builder ELSE <<>>)

BrushesReached(d) ==
  IF convert.pc = "brushes" /\ convert.level = d THEN convert.next - 1
  ELSE IF convert.pc = "brushes" /\ convert.level < d THEN 0
  ELSE Len(convert.detail_level[d])

BrushesAssignedInOrder ==
  \A d \in 1..Len(convert.detail_level) :
    BuilderBrushes(d) = FilteredBrushes(d, BrushesReached(d))

NoHugeBrush(d) ==
  \A i \in 1..Len(convert.detail_level[d]) :
    convert.detail_level[d][i].faces <= MAX_FACES

SomeBrushPasses(d) ==
  \E i \in 1..Len(convert.detail_level[d]) :
    PassesFilter(convert.detail_level[d][i])

InteriorWithinLimit(itr) ==
  /\ Len(itr.brushes) >= 1
  /\ FaceCount(convert.detail_level[itr.level], itr.brushes) <= MAX_FACES

BuiltWithinLimit ==
  \A k \in 1..Len(convert.built) :
    NoHugeBrush(convert.built[k].level) => InteriorWithinLimit(convert.built[k])

BuiltNonEmptyWithinLimit ==
  \A k \in 1..Len(convert.built) :
    (NoHugeBrush(convert.built[k].level) /\ SomeBrushPasses(convert.built[k].level))
      => InteriorWithinLimit(convert.built[k])

(* a step of the brush iterator builds a builder exactly when the brush    *)
(* passes the filter and would bring the face count above MAX_FACES        *)
FlushExactlyOnOverflow ==
  (convert # <<>> /\ convert.pc = "brushes" /\ convert'.next = convert.next + 1)
  => LET b == convert.detail_level[convert.level][convert.next]
     IN  (Len(convert'.built) > Len(convert.built))
         <=> (/\ PassesFilter(b)
              /\ FaceCount(convert.detail_level[convert.level], convert.cur_builder)
                    + b.faces > MAX_FACES)

(* C11, as stated: the brushes that pass the filter are assigned in input  *)
(* order each to exactly one builder, a new builder is started exactly     *)
(* when the next brush would bring the face count above 16383, and if no   *)
(* brush of the level has more than 16383 faces every built builder holds  *)
(* at least one brush and at most 16383 faces.                             *)
C11_BuildersPartition ==
  [][/\ FlushExactlyOnOverflow
     /\ BrushesAssignedInOrder'
     /\ BuiltWithinLimit']_vars

(* C11, amended: the same, for the detail levels in which no brush has     *)
(* more than 16383 faces and at least one brush passes the filter (a level *)
(* in which none passes still builds its one, empty, builder).             *)
C11_BuildersPartitionNonEmpty ==
  [][/\ FlushExactlyOnOverflow
     /\ BrushesAssignedInOrder'
     /\ BuiltNonEmptyWithinLimit']_vars

C11_Witness ==
  /\ convert # <<>>
  /\ convert.pc = "done"
  /\ NoHugeBrush(1)
  /\ \E i \in 1..Len(convert.detail_level[1]) :
       ~PassesFilter(convert.detail_level[1][i])
  /\ Len(SelectSeq(convert.built, LAMBDA itr : itr.level = 1)) = 2
  /\ Len(BuilderBrushes(1)) = 2

(* C12: every interior built by a top-level builder, of every detail level *)
(* and every split, is contained in exactly one of the output buffers.     *)
C12_EveryInteriorWritten ==
  (convert # <<>> /\ convert.pc = "done")
  => \A i \in 1..Len(convert.built) :
       Cardinality({kj \in {<<k, j>> : k \in 1..Len(convert.dif_data), j \in 1..MaxBrushes + 1} :
                      /\ kj[2] <= Len(convert.dif_data[kj[1]].interiors)
                      /\ convert.dif_data[kj[1]].interiors[kj[2]] = convert.built[i]}) = 1

(* the sub-objects the grouping is meant to give for level d: one per      *)
(* distinct nonzero owner, ascending, each with all brushes of the owner   *)
OwnerSubObjects(d) ==
  LET brushes == convert.detail_level[d]
      owners == SortedSeq({brushes[i].owner : i \in 1..Len(brushes)} \ {0})
  IN  [g \in 1..Len(owners) |->
         [level |-> d, owner |-> owners[g],
          brushes |-> SelectSeq([i \in 1..Len(brushes) |-> i],
                                LAMBDA i : brushes[i].owner = owners[g])]]

(* C13: for each detail level there is exactly one sub-object per distinct *)
(* nonzero owner id, built from all brushes of that owner, in ascending    *)
(* owner order, whatever the order of the brushes in the input.            *)
C13_OneSubObjectPerOwner ==
  (convert # <<>> /\ convert.pc = "done")
  => convert.dif.sub_objects =
       Flatten([d \in 1..Len(convert.detail_level) |-> OwnerSubObjects(d)])

---------------------------------------------------------------------------
(* f32 arithmetic.  An f32 is [neg, m, e] with value (-1)^neg * m * 2^e    *)
(* and m = 0 or 2^23 <= m < 2^24 (no subnormals, infinities or NaNs: the   *)
(* exponents of the values below stay far from both ends).  Every          *)
(* operation rounds its exact result to nearest, ties to even.             *)

Pow2(k) == 2 ^ k

F32Zero == [neg |-> FALSE, m |-> 0, e |-> 0]

(* number of bits of x > 0                                                 *)
BitLen(x) == CHOOSE n \in 1..31 : Pow2(n - 1) <= x /\ (n = 31 \/ x < Pow2(n))

(* the f32 nearest to x * 2^e (x > 0, with bits below x when `sticky`)     *)
F32RoundValue(neg, x, e, sticky, n) ==
  IF n <= 24 THEN [neg |-> neg, m |-> x * Pow2(24 - n), e |-> e - (24 - n)]
  ELSE LET k == n - 24
           q == x \div Pow2(k)
           r == x % Pow2(k)
           half == Pow2(k - 1)
           up == r > half \/ (r = half /\ (sticky \/ q % 2 = 1))
       IN  IF up /\ q + 1 = Pow2(24)
           THEN [neg |-> neg, m |-> Pow2(23), e |-> e + k + 1]
           ELSE [neg |-> neg, m |-> IF up THEN q + 1 ELSE q, e |-> e + k]

F32Round(neg, x, e, sticky) ==
  IF x = 0 THEN F32Zero
  ELSE The({F32RoundValue(neg, v, e, sticky, BitLen(v)) : v \in {x}})

F32FromInt(i) == F32Round(i < 0, Abs(i), 0, FALSE)

F32Neg(a) == IF a.m = 0 THEN a ELSE [a EXCEPT !.neg = ~@]

(* a * b: the 48-bit product of the significands from 12-bit halves        *)
F32MulValue(a, b) ==
  IF a.m = 0 \/ b.m = 0 THEN F32Zero
  ELSE LET a1 == a.m \div 4096
           a0 == a.m % 4096
           b1 == b.m \div 4096
           b0 == b.m % 4096
           mid == a1 * b0 + a0 * b1
           low == (mid % 4096) * 4096 + a0 * b0
           hi == a1 * b1 + mid \div 4096 + low \div Pow2(24)
           lo == low % Pow2(24)
       IN  F32Round(a.neg # b.neg, hi * 64 + lo \div Pow2(18),
                    a.e + b.e + 18, lo % Pow2(18) # 0)

F32Mul(a, b) == The({F32MulValue(x, y) : x \in {a}, y \in {b}})

(* big + small where |big| >= |small|, both nonzero: three guard bits and  *)
(* a sticky bit                                                            *)
F32AddOrdered(big, small) ==
  LET sh == big.e - small.e
      xb == big.m * 8
      xs == IF sh > 27 THEN 0 ELSE (small.m * 8) \div Pow2(sh)
      sticky == sh > 27 \/ (small.m * 8) % Pow2(sh) # 0
  IN  IF big.neg = small.neg
      THEN F32Round(big.neg, xb + xs, big.e - 3, sticky)
      ELSE IF xb - xs = 0 /\ ~sticky THEN F32Zero
      ELSE F32Round(big.neg, xb - xs - (IF sticky THEN 1 ELSE 0), big.e - 3, sticky)

F32AddValue(a, b) ==
  IF a.m = 0 THEN b
  ELSE IF b.m = 0 THEN a
  ELSE IF a.e > b.e \/ (a.e = b.e /\ a.m >= b.m) THEN F32AddOrdered(a, b)
  ELSE F32AddOrdered(b, a)

F32Add(a, b) == The({F32AddValue(x, y) : x \in {a}, y \in {b}})

F32Sub(a, b) == F32Add(a, F32Neg(b))

(* long division: `steps` more quotient bits of r / d after q              *)
RECURSIVE F32DivBits(_, _, _, _)
F32DivBits(q, r, d, steps) ==
  IF steps = 0 THEN [q |-> q, r |-> r]
  ELSE IF 2 * r >= d THEN F32DivBits(2 * q + 1, 2 * r - d, d, steps - 1)
  ELSE F32DivBits(2 * q, 2 * r, d, steps - 1)

F32DivValue(a, b) ==
  IF a.m = 0 THEN F32Zero
  ELSE The({F32Round(a.neg # b.neg, qr.q, a.e - b.e - 26, qr.r # 0) :
              qr \in {F32DivBits(a.m \div b.m, a.m % b.m, b.m, 26)}})

F32Div(a, b) == The({F32DivValue(x, y) : x \in {a}, y \in {b}})

(* a > b                                                                   *)
F32Gt(a, b) == \E d \in {F32Sub(a, b)} : d.m # 0 /\ ~d.neg

F32Le(a, b) == ~F32Gt(a, b)

(* cgmath: Vector3::dot is x*x + y*y + z*z, summed left to right           *)
F32Dot(v, w) ==
  F32Add(F32Add(F32Mul(v[1], w[1]), F32Mul(v[2], w[2])), F32Mul(v[3], w[3]))

F32Vec(v) == [c \in 1..3 |-> F32FromInt(v[c])]

---------------------------------------------------------------------------
(* CSXBrush::clip_plane in f32 (SpecClip): one call on a tetrahedron, one  *)
(* face of the loop per step, with the sanity check of every face.         *)

(* BSP_CONFIG.epsilon = 1e-4 as an f32                                     *)
EpsilonF32 == [neg |-> FALSE, m |-> 13743895, e |-> 0 - 37]

(* test_epsilon = BSP_CONFIG.epsilon * 10.0                                *)
TestEpsilonF32 == F32Mul(EpsilonF32, F32FromInt(10))

(* pt.dot(plane_value.normal) + plane_value.distance                       *)
F32PlaneDistance(pv, pt) == F32Add(F32Dot(pt, pv.normal), pv.distance)

F32Crosses(d1, d2) ==
  \/ (F32Gt(d1, EpsilonF32) /\ F32Gt(F32Neg(EpsilonF32), d2))
  \/ (F32Gt(F32Neg(EpsilonF32), d1) /\ F32Gt(d2, EpsilonF32))

(* t = (-distance - normal.dot(v1)) / normal.dot(v2 - v1);                 *)
(* v3 = v1 + (v2 - v1) * t                                                 *)
F32IntersectionAt(v1, dv, t) == [c \in 1..3 |-> F32Add(v1[c], F32Mul(dv[c], t))]

F32Intersection(pv, v1, v2) ==
  The({F32IntersectionAt(v1, dv,
                         F32Div(F32Sub(F32Neg(pv.distance), F32Dot(pv.normal, v1)),
                                F32Dot(pv.normal, dv))) :
         dv \in {[c \in 1..3 |-> F32Sub(v2[c], v1[c])]}})

(* the loop over the edges of a face from edge i on; acc is                *)
(* [vertices |-> new_vertices, indices |-> new_indices] so far and ds the  *)
(* distances of the face's vertices                                        *)
RECURSIVE F32ClipEdges(_, _, _, _, _, _)
F32ClipEdges(acc, vertices, indices, pv, ds, i) ==
  IF i > Len(indices) THEN acc
  ELSE LET j == (i % Len(indices)) + 1
           kept == IF F32Le(ds[i], EpsilonF32)
                   THEN Append(acc.indices, indices[i]) ELSE acc.indices
       IN  The({F32ClipEdges(a, vertices, indices, pv, ds, i + 1) :
                  a \in {IF F32Crosses(ds[i], ds[j])
                         THEN [vertices |->
                                 Append(acc.vertices,
                                        F32Intersection(pv, vertices[indices[i] + 1],
                                                        vertices[indices[j] + 1])),
                               indices |-> Append(kept, Len(acc.vertices))]
                         ELSE [vertices |-> acc.vertices, indices |-> kept]}})

(* the sanity check of one face's new_indices                              *)
F32ValidClip(pv, new_vertices, new_indices) ==
  \A k \in 1..Len(new_indices) :
    F32Le(F32PlaneDistance(pv, new_vertices[new_indices[k] + 1]), TestEpsilonF32)

TetrahedronFaces ==
  << [plane_id |-> 0, indices |-> <<0, 1, 2>>, id |-> 0, used_plane |-> FALSE],
     [plane_id |-> 1, indices |-> <<0, 3, 1>>, id |-> 1, used_plane |-> FALSE],
     [plane_id |-> 2, indices |-> <<1, 3, 2>>, id |-> 2, used_plane |-> FALSE],
     [plane_id |-> 3, indices |-> <<2, 3, 0>>, id |-> 3, used_plane |-> FALSE] >>

ClipVertices ==
  { <<4083, 3470, 1276>>, <<-3511, -3381, -3849>>, <<0, 0, 0>>,
    <<8, 0, 0>>, <<0, 8, 8>> }

(* clip planes: (0.6, 0.8, 0) at distance 2982, z = 4 and x = 0            *)
ClipPlanes ==
  { [normal |-> <<[neg |-> FALSE, m |-> 10066330, e |-> 0 - 24],
                  [neg |-> FALSE, m |-> 13421773, e |-> 0 - 24], F32Zero>>,
     distance |-> F32FromInt(2982)],
    [normal |-> F32Vec(<<0, 0, 1>>), distance |-> F32FromInt(0 - 4)],
    [normal |-> F32Vec(<<1, 0, 0>>), distance |-> F32Zero] }

Tetrahedra ==
  {v \in [1..4 -> ClipVertices] : \A i, j \in 1..4 : i # j => v[i] # v[j]}

InitClip ==
  /\ cfg = DefaultConfig
  /\ IdleIntern
  /\ scene = <<>>
  /\ run = <<>>
  /\ console = <<>>
  /\ grouping = <<>>
  /\ atlas = <<>>
  /\ cast = <<>>
  /\ fan = <<>>
  /\ emit = <<>>
  /\ convert = <<>>
  /\ IdleBuild
  /\ IdleRating
  /\ \E v \in Tetrahedra, plane \in ClipPlanes, flip_face \in BOOLEAN :
       clip = [vertices |-> [i \in 1..4 |-> F32Vec(v[i])],
               faces |-> TetrahedronFaces,
               plane |-> 4,
               plane_value |-> IF flip_face
                               THEN [normal |-> [c \in 1..3 |-> F32Neg(plane.normal[c])],
                                     distance |-> F32Neg(plane.distance)]
                               ELSE plane,
               flip_face |-> flip_face,
               new_vertices |-> [i \in 1..4 |-> F32Vec(v[i])],
               new_faces |-> <<>>,
               face |-> 1,
               pc |-> "faces"]

(* one iteration of the loop over self.faces                               *)
ClipNextFace ==
  /\ clip # <<>>
  /\ clip.pc = "faces"
  /\ clip.face <= Len(clip.faces)
  /\ \E face \in {clip.faces[clip.face]} :
     \E ds \in {[i \in 1..Len(face.indices) |->
                   F32PlaneDistance(clip.plane_value,
                                    clip.vertices[face.indices[i] + 1])]} :
     \E res \in {F32ClipEdges([vertices |-> clip.new_vertices, indices |-> <<>>],
                              clip.vertices, face.indices, clip.plane_value, ds, 1)} :
       clip' = [clip EXCEPT
         !.new_vertices = res.vertices,
         !.new_faces =
            IF Len(res.indices) > 2
               /\ F32ValidClip(clip.plane_value, res.vertices, res.indices)
            THEN Append(@, [plane_id |-> face.plane_id,
                            indices |-> res.indices,
                            id |-> face.id,
                            used_plane |-> face.used_plane \/ face.plane_id = clip.plane])
            ELSE @,
         !.face = @ + 1,
         !.pc = IF F32ValidClip(clip.plane_value, res.vertices, res.indices)
                THEN "faces" ELSE "panicked"]
  /\ UNCHANGED <<cfg, internVars, scene, run, convert, emit, fan, cast, atlas, grouping, console, build, rating>>

(* self.vertices = new_vertices; self.faces = new_faces                    *)
FinishClip ==
  /\ clip # <<>>
  /\ clip.pc = "faces"
  /\ clip.face > Len(clip.faces)
  /\ clip' = [clip EXCEPT !.vertices = clip.new_vertices,
                          !.faces = clip.new_faces,
                          !.pc = "done"]
  /\ UNCHANGED <<cfg, internVars, scene, run, convert, emit, fan, cast, atlas, grouping, console, build, rating>>

NextClip ==
  \/ ClipNextFace
  \/ FinishClip

SpecClip == InitClip /\ [][NextClip]_vars

(* C15: after clip_plane every vertex referenced by a retained face is at  *)
(* signed distance at most 10 * epsilon from the (possibly negated) clip   *)
(* plane, and the "Invalid CLIP" assertion never fires.                    *)
C15_NoInvalidClip ==
  clip # <<>> =>
    /\ clip.pc # "panicked"
    /\ \A k \in 1..Len(clip.new_faces) :
         F32ValidClip(clip.plane_value, clip.new_vertices, clip.new_faces[k].indices)

---------------------------------------------------------------------------
(* build_bsp runs to its end.                                              *)

(* build_bsp has returned                                                  *)
BspBuilt == build # <<>> /\ build.pc \in {"export_bsp", "coord_bins", "done"}

(* every node without a plane_index has only faces with used_plane         *)
TerminalNodesUsedUp ==
  \A p \in DOMAIN build.tree :
    build.tree[p].plane_index = NoPlane
      => \A k \in 1..Len(build.tree[p].brush_list) :
           \A j \in 1..Len(build.tree[p].brush_list[k].faces) :
             build.tree[p].brush_list[k].faces[j].used_plane

(* no plane id is the splitter of a node and of one of its descendants     *)
PathPlanesDistinct ==
  \A p, q \in DOMAIN build.tree :
    (/\ Len(q) < Len(p)
     /\ SubSeq(p, 1, Len(q)) = q
     /\ build.tree[p].plane_index # NoPlane)
      => build.tree[p].plane_index # build.tree[q].plane_index

(* the recursion is bounded and never stuck: no node lies deeper than the  *)
(* number of planes, and every node waiting to be split has unused planes  *)
(* and gets a splitter                                                     *)
SplitProgresses ==
  /\ \A p \in DOMAIN build.tree : Len(p) <= Len(build.plane_list)
  /\ build.pc = "split" =>
       /\ build.stack # <<>>
       /\ \A i \in 1..Len(build.stack) :
            /\ build.stack[i] \in DOMAIN build.tree
            /\ NeedsSplit(build.tree[build.stack[i]])
       /\ Splitters(build.tree[Head(build.stack)], build.plane_list) # {}

(* C14: with split_method Fast or Exhaustive build_bsp terminates (the     *)
(* recursion is bounded by the number of planes and every pending node can *)
(* be split); when it has returned every node without a plane_index has no *)
(* face with used_plane == false; and along every root-to-leaf path each   *)
(* plane id is the splitter at most once.                                  *)
C14_BuildBspTerminates ==
  (build # <<>> /\ cfg.split_method # "None" /\ build.tree # <<>>)
    => /\ SplitProgresses
       /\ PathPlanesDistinct
       /\ BspBuilt => TerminalNodesUsedUp

C14_Witness ==
  /\ BspBuilt
  /\ cfg.split_method # "None"
  /\ \E p \in DOMAIN build.tree :
       /\ Len(p) >= 3
       /\ build.tree[p].plane_index = NoPlane
       /\ build.tree[p].brush_list # <<>>

---------------------------------------------------------------------------
(* the tasks of the call that returned through the coplanar shortcut: the  *)
(* only tuples with coplanar = 1                                           *)
ShortcutTasks ==
  {k \in DOMAIN rating.task :
     rating.task[k].pc = "done" /\ rating.task[k].result[4] = 1}

(* C16: the membership test on considered_planes and the insertion after   *)
(* it are one critical section, so among the tasks rating one candidate    *)
(* plane at most one sees the plane as not yet considered and returns      *)
(* through the coplanar shortcut.                                          *)
C16_AtMostOneShortcut ==
  rating # <<>> => Cardinality(ShortcutTasks) <= 1

---------------------------------------------------------------------------
(* the candidate planes of a node in the order the selection iterates them *)
Candidates(node) ==
  IF cfg.split_method = "Fast"
  THEN FastSample(ChosenPlanes(node), build.shuffle)
  ELSE LeastDepthPlanes(node, build.plane_list)

(* the planes of maximal rating that come first among the candidates;      *)
(* out[i] are the scores calc_plane_rating can give the i-th candidate     *)
FirstMaximal(planes, out) ==
  {planes[i] : i \in {i \in 1..Len(planes) :
     \E r \in out[i] :
       /\ \A j \in 1..(i - 1) : SetMin(out[j]) < r
       /\ \A j \in (i + 1)..Len(planes) : SetMin(out[j]) <= r}}

FirstMaximalCandidates(node) ==
  The({FirstMaximal(planes,
                    [i \in 1..Len(planes) |->
                       RatingOutcomes(node.brush_list, planes[i], build.plane_list)]) :
         planes \in {Candidates(node)}})

(* C17: when several candidates of a node have the same maximal rating,    *)
(* Fast and Exhaustive both return the one that comes first in candidate   *)
(* iteration order: the splitter of every split is a first maximum.        *)
C17_FirstMaximumWins ==
  [][(build # <<>> /\ build.pc = "split" /\ build'.tree # build.tree)
       => build'.tree[Head(build.stack)].plane_index
            \in FirstMaximalCandidates(build.tree[Head(build.stack)])]_vars

---------------------------------------------------------------------------
(* the distances of the brush's face vertices to the plane                 *)
VertexDistances(brush, plane) ==
  {PlaneDistance(plane, brush.vertices[p + 1]) : p \in UniquePoints(brush)}

(* task k has rated its brush through the vertex path                      *)
RatedByVertices(k) ==
  /\ rating.task[k].pc = "done"
  /\ \/ rating.task[k].contained
     \/ FirstFaceOnPlane(rating.brush_list[k], rating.plane_id, rating.plane_list) = 0

(* C18: for a brush rated through the vertex path, tiny_windings is 1 if   *)
(* and only if some face vertex of the brush has a signed distance d to    *)
(* the plane with 0 < |d| < 1, whatever the other vertices' distances.     *)
C18_TinyWindingsIffTinyVertex ==
  rating # <<>> =>
    \A k \in DOMAIN rating.task :
      RatedByVertices(k) =>
        (rating.task[k].result[5] = 1
           <=> \E d \in VertexDistances(rating.brush_list[k],
                                        rating.plane_list[rating.plane_id + 1]) :
                 0 < Abs(d) /\ Abs(d) < DistOne)

---------------------------------------------------------------------------
(* split_brush_list: plane_in_brush, the condition of its assertion        *)
plane_in_brush(node, plane_id) ==
  \E k \in 1..Len(node.brush_list) :
    \E j \in 1..Len(node.brush_list[k].faces) :
      node.brush_list[k].faces[j].plane_id = plane_id

(* every brush of the node has a face on the plane                         *)
PlaneInEveryBrush(node, plane_id) ==
  \A k \in 1..Len(node.brush_list) :
    \E j \in 1..Len(node.brush_list[k].faces) :
      node.brush_list[k].faces[j].plane_id = plane_id

(* a step that splits the node at the head of the stack                    *)
SplitStep == build # <<>> /\ build.pc = "split" /\ build'.tree # build.tree

(* C19 as stated: whenever split_brush_list is entered with splitter P,    *)
(* every brush of the node's brush_list has a face whose plane_id is P.    *)
C19_SplitterInEveryBrush ==
  [][SplitStep => PlaneInEveryBrush(build.tree[Head(build.stack)],
                                    build'.tree[Head(build.stack)].plane_index)]_vars

(* C19: whenever split_brush_list is entered with splitter P, at least one *)
(* brush of the node's brush_list has a face whose plane_id is P, which is *)
(* what the assertion checks; every brush without such a face is rated     *)
(* and split by its vertices.                                              *)
C19_SplitterInSomeBrush ==
  [][SplitStep => plane_in_brush(build.tree[Head(build.stack)],
                                 build'.tree[Head(build.stack)].plane_index)]_vars

(* the root of a scene of two brushes was split: plane ids are per face,   *)
(* so the splitter is a face of one brush and of no face of the other      *)
C19_Witness ==
  /\ build # <<>>
  /\ build.tree # <<>>
  /\ Len(scene.brushes) = 2
  /\ build.tree[<<>>].plane_index # NoPlane
  /\ \E k \in 1..2 :
       build.tree[<<>>].plane_index
         \notin {FacesBefore(scene.brushes, k) + j - 1 : j \in 1..Len(scene.brushes[k].face)}

---------------------------------------------------------------------------
(* the paths of the tree's nodes that have a plane, and their pre-order:   *)
(* a node before its subtrees, the front subtree before the back one       *)
PlanePaths == {p \in DOMAIN build.tree : build.tree[p].plane_index # NoPlane}

PathBefore(p, q) ==
  \/ Len(p) < Len(q) /\ SubSeq(q, 1, Len(p)) = p
  \/ \E i \in 1..Min2(Len(p), Len(q)) :
       /\ SubSeq(p, 1, i - 1) = SubSeq(q, 1, i - 1)
       /\ p[i] = "front"
       /\ q[i] = "back"

PreOrderIndex(p) == Cardinality({q \in PlanePaths : PathBefore(q, p)})

(* what a child reference is: a node and which, a solid leaf, or the empty *)
(* leaf                                                                    *)
RefKind(ref) ==
  IF ~ref.leaf THEN <<"node", ref.index>>
  ELSE IF ref.solid THEN <<"solid", 0>> ELSE <<"empty", 0>>

(* what the reference to the child at path p has to be                     *)
ChildKind(p) ==
  IF p \notin DOMAIN build.tree THEN <<"empty", 0>>
  ELSE IF build.tree[p].plane_index # NoPlane THEN <<"node", PreOrderIndex(p)>>
  ELSE IF build.tree[p].solid /\ build.tree[p].brush_list # <<>> THEN <<"solid", 0>>
  ELSE <<"empty", 0>>

(* the children of the node array, the root's reference included           *)
ChildRefs ==
  {build.root} \cup UNION {{build.b.bsp_nodes[n].front_index,
                            build.b.bsp_nodes[n].back_index} :
                             n \in 1..Len(build.b.bsp_nodes)}

RootFirst == build.root = [leaf |-> FALSE, solid |-> FALSE, index |-> 0]

ChildrenAfterParent ==
  \A n \in 1..Len(build.b.bsp_nodes) :
    \A ref \in {build.b.bsp_nodes[n].front_index, build.b.bsp_nodes[n].back_index} :
      ~ref.leaf => (n - 1 < ref.index /\ ref.index < Len(build.b.bsp_nodes))

SlotsHoldFinalChildren ==
  /\ Len(build.b.bsp_nodes) = Cardinality(PlanePaths)
  /\ \A p \in PlanePaths :
       \E node \in {build.b.bsp_nodes[PreOrderIndex(p) + 1]} :
         <<RefKind(node.front_index), RefKind(node.back_index)>>
           \in {<<ChildKind(Append(p, "front")), ChildKind(Append(p, "back"))>>,
                <<ChildKind(Append(p, "back")), ChildKind(Append(p, "front"))>>}

SolidLeavesExist ==
  \A ref \in ChildRefs :
    (ref.leaf /\ ref.solid) =>
      /\ ref.index < Len(build.b.bsp_solid_leaves)
      /\ build.b.bsp_solid_leaves[ref.index + 1].surface_count > 0
      /\ build.b.bsp_solid_leaves[ref.index + 1].surface_index
           + build.b.bsp_solid_leaves[ref.index + 1].surface_count
           <= Len(build.b.solid_leaf_surfaces)

(* C20: after export_bsp_node on a root that has a plane, the root is      *)
(* bsp_nodes[0]; every child reference to a node points to an index above  *)
(* its parent's; every reserved slot holds its node's final children; and  *)
(* every reference to a solid leaf points to an entry of bsp_solid_leaves  *)
(* whose surface range lies inside solid_leaf_surfaces.                    *)
C20_NodeArrayLinked ==
  (BspExported /\ build.tree[<<>>].plane_index # NoPlane) =>
    /\ RootFirst
    /\ ChildrenAfterParent
    /\ SlotsHoldFinalChildren
    /\ SolidLeavesExist

(* a tree was exported in which a node has two nodes as children, some     *)
(* node has a solid leaf as a child, and a node's children were swapped    *)
(* for a flipped plane                                                     *)
C20_Witness ==
  /\ BspExported
  /\ build.tree[<<>>].plane_index # NoPlane
  /\ \E n \in 1..Len(build.b.bsp_nodes) :
       ~build.b.bsp_nodes[n].front_index.leaf /\ ~build.b.bsp_nodes[n].back_index.leaf
  /\ \E ref \in ChildRefs : ref.leaf /\ ref.solid
  /\ \E p \in PlanePaths :
       /\ ChildKind(Append(p, "front")) # ChildKind(Append(p, "back"))
       /\ RefKind(build.b.bsp_nodes[PreOrderIndex(p) + 1].front_index)
            = ChildKind(Append(p, "back"))

---------------------------------------------------------------------------
(* the reference is the encoding of the in-memory child at path p: the     *)
(* node's index, the solid leaf with the surfaces of the child's brushes,  *)
(* or the empty leaf                                                       *)
EncodesChild(ref, p) ==
  IF p \notin DOMAIN build.tree THEN ref = Sentinel
  ELSE IF build.tree[p].plane_index # NoPlane
  THEN ref = [leaf |-> FALSE, solid |-> FALSE, index |-> PreOrderIndex(p)]
  ELSE IF build.tree[p].solid /\ build.tree[p].brush_list # <<>>
  THEN /\ ref.leaf
       /\ ref.solid
       /\ ref.index < Len(build.b.bsp_solid_leaves)
       /\ SurfacesOfLeaf(ref.index) = Range(LeafSurfaces(build.b, build.tree[p]))
  ELSE ref = Sentinel

(* the pooled plane points the way of the node's plane: the in-memory      *)
(* front child (the clip by the negated plane) is on its positive side     *)
PooledPlaneFacesFront(node, p) ==
  Dot3(PooledPlane(build.b, node.plane_index).normal,
       build.plane_list[build.tree[p].plane_index + 1].normal) > 0

(* C21: every node written by export_bsp_node stores a plane index with    *)
(* bit 0x8000 clear, and its front child is the encoding of the in-memory  *)
(* front child when the pooled plane is the node's plane (no flip bit) and *)
(* of the in-memory back child when it is the negated plane (flip bit),    *)
(* symmetrically for the back child: the linked front child is the one on  *)
(* the positive side of the pooled plane.                                  *)
C21_FrontOnPositiveSide ==
  (BspExported /\ build.tree[<<>>].plane_index # NoPlane) =>
    \A p \in PlanePaths :
      \E node \in {build.b.bsp_nodes[PreOrderIndex(p) + 1]} :
        /\ node.plane_index < FlipBit
        /\ node.plane_index < Len(build.b.planes)
        /\ IF PooledPlaneFacesFront(node, p)
           THEN /\ EncodesChild(node.front_index, Append(p, "front"))
                /\ EncodesChild(node.back_index, Append(p, "back"))
           ELSE /\ EncodesChild(node.front_index, Append(p, "back"))
                /\ EncodesChild(node.back_index, Append(p, "front"))

(* a tree was exported in which one node kept its children and another,    *)
(* whose plane is pooled negated, has them swapped, the two children being *)
(* different                                                               *)
C21_Witness ==
  /\ BspExported
  /\ \E p, q \in PlanePaths :
       /\ PooledPlaneFacesFront(build.b.bsp_nodes[PreOrderIndex(p) + 1], p)
       /\ ~PooledPlaneFacesFront(build.b.bsp_nodes[PreOrderIndex(q) + 1], q)
       /\ ChildKind(Append(p, "front")) # ChildKind(Append(p, "back"))
       /\ ChildKind(Append(q, "front")) # ChildKind(Append(q, "back"))

---------------------------------------------------------------------------
(* The emit-string loop of export_convex_hull with its assertions          *)
(* (SpecEmit): one step per hull point.  The hull is a cone, an apex over  *)
(* a polygon of n sides: poly j < n is the side triangle (apex, j, j+1),   *)
(* poly n is the base; every poly has its own plane.                       *)

(* largest number of sides of the cone's base                              *)
MaxSides == 128

ConeSides == {3, 4, MaxSides}

ConeHullPolys(n) ==
  [j \in 1..(n + 1) |->
     IF j <= n THEN [points |-> <<n, j - 1, j % n>>, plane_index |-> j - 1]
     ELSE [points |-> [k \in 1..n |-> n - k], plane_index |-> n]]

(* the assertions on the way through one emit string: every point, both    *)
(* ends of every edge, every poly's length and index, and every position   *)
(* of a poly's point in emit_points is < 0x100                             *)
EmitAssertionsHold(hull_polys, emit_poly_indices, emit_points, emit_edges) ==
  /\ \A k \in 1..Len(emit_points) : emit_points[k] < 256
  /\ \A k \in 1..Len(emit_edges) :
       EdgeOfKey(emit_edges[k])[1] < 256 /\ EdgeOfKey(emit_edges[k])[2] < 256
  /\ \A k \in 1..Len(emit_poly_indices) :
       /\ Len(hull_polys[emit_poly_indices[k] + 1].points) < 256
       /\ emit_poly_indices[k] < 256
       /\ \A m \in 1..Len(hull_polys[emit_poly_indices[k] + 1].points) :
            Position(emit_points, hull_polys[emit_poly_indices[k] + 1].points[m]) < 256

InitEmit ==
  /\ cfg = DefaultConfig
  /\ IdleIntern
  /\ scene = <<>>
  /\ run = <<>>
  /\ console = <<>>
  /\ grouping = <<>>
  /\ atlas = <<>>
  /\ cast = <<>>
  /\ fan = <<>>
  /\ convert = <<>>
  /\ clip = <<>>
  /\ IdleBuild
  /\ IdleRating
  /\ \E n \in ConeSides, seed \in Seeds :
       emit = [hull_polys |-> ConeHullPolys(n),
               vertices |-> n + 1,
               seed |-> seed,
               i |-> 0,
               counts |-> <<>>,
               emit_string |-> <<>>,
               pc |-> "loop"]

(* one iteration of the loop over b.vertices.vertex: the emit string of    *)
(* hull point i                                                            *)
EmitNextString ==
  /\ emit # <<>>
  /\ emit.pc = "loop"
  /\ emit.i < emit.vertices
  /\ \E polys \in {EmitPolyIndices(emit.hull_polys, emit.i)} :
     \E points \in {EmitPoints(emit.hull_polys, polys, emit.seed)} :
     \E edges \in {EmitEdges(emit.hull_polys, polys, emit.seed)} :
       emit' = IF polys # <<>> /\ EmitAssertionsHold(emit.hull_polys, polys, points, edges)
               THEN [emit EXCEPT
                       !.counts = <<Len(points), Len(edges), Len(polys)>>,
                       !.emit_string = EmitBytes(emit.hull_polys, polys, points, edges),
                       !.i = @ + 1]
               ELSE [emit EXCEPT !.pc = "panicked"]
  /\ UNCHANGED <<cfg, internVars, scene, run, convert, clip, fan, cast, atlas, grouping, console, build, rating>>

(* the loop ends: self.interior.convex_hulls.push(hull)                    *)
FinishEmit ==
  /\ emit # <<>>
  /\ emit.pc = "loop"
  /\ emit.i = emit.vertices
  /\ emit' = [emit EXCEPT !.pc = "done"]
  /\ UNCHANGED <<cfg, internVars, scene, run, convert, clip, fan, cast, atlas, grouping, console, build, rating>>

NextEmit ==
  \/ EmitNextString
  \/ FinishEmit

SpecEmit == InitEmit /\ [][NextEmit]_vars

(* C22: every byte pushed to an emit string, the three count bytes as well *)
(* as the index bytes, is guarded by an assertion that it is below 256:    *)
(* in every emit string written, the count bytes are the numbers of        *)
(* points, edges and polys, none truncated modulo 256.                     *)
C22_NoByteTruncated ==
  (emit # <<>> /\ emit.emit_string # <<>>) =>
    /\ emit.emit_string[1] = emit.counts[1]
    /\ emit.emit_string[emit.counts[1] + 2] = emit.counts[2]
    /\ emit.emit_string[emit.counts[1] + 2 * emit.counts[2] + 3] = emit.counts[3]

---------------------------------------------------------------------------
(* The winding of one surface (SpecFan): export_surface writes it in fan   *)
(* order and sets fan_mask, process_hull_poly_lists unwinds it into        *)
(* temp_surface.point_indices.  One step per loop iteration.  fan_mask is  *)
(* an i32 (an integer literal with no other type to take): the set of its  *)
(* bits that are set.  overflow_checks is the build's setting: 1 << i with *)
(* i >= 32 panics when it is on and shifts by i % 32 when it is off.       *)

(* longest winding of a face                                               *)
MaxWinding == 33
(* builder.rs:1645  point_indices: [u32; 32] and builder.rs:732 [0; 32]    *)
TempSize == 32
(* width of fan_mask                                                       *)
MaskBits == 32

(* hull_points of the brush: vertex v has PointIndex 100 + v               *)
FanHullPoints == [v \in 1..MaxWinding |-> 100 + (v - 1)]

InitFan ==
  /\ cfg = DefaultConfig
  /\ IdleIntern
  /\ scene = <<>>
  /\ run = <<>>
  /\ console = <<>>
  /\ grouping = <<>>
  /\ atlas = <<>>
  /\ cast = <<>>
  /\ convert = <<>>
  /\ clip = <<>>
  /\ emit = <<>>
  /\ IdleBuild
  /\ IdleRating
  /\ \E n \in 3..MaxWinding, overflow_checks \in BOOLEAN :
       fan = [winding |-> [k \in 1..n |-> n - k],
              overflow_checks |-> overflow_checks,
              pc |-> "indices",
              i |-> 0,
              indices |-> <<>>,
              fan_mask |-> {},
              temp_indices |-> [k \in 1..TempSize |-> 0],
              jdx |-> 0,
              j |-> 0,
              point_indices |-> [k \in 1..TempSize |-> 0],
              num_points |-> 0]

(* export_surface: one iteration of for i in 0..winding_length             *)
PushFanIndex ==
  /\ fan # <<>>
  /\ fan.pc = "indices"
  /\ \E n \in {Len(fan.winding)} :
       IF fan.i < n
       THEN fan' = [fan EXCEPT
              !.indices =
                 Append(@, FanHullPoints[
                   fan.winding[(IF fan.i >= 2
                                THEN IF fan.i % 2 = 0
                                     THEN n - 1 - (fan.i - 2) \div 2
                                     ELSE (fan.i + 1) \div 2
                                ELSE fan.i) + 1] + 1]),
              !.i = @ + 1]
       ELSE fan' = [fan EXCEPT !.pc = "fan_mask", !.i = 0]
  /\ UNCHANGED <<cfg, internVars, scene, run, convert, clip, emit, cast, atlas, grouping, console, build, rating>>

(* export_surface: one iteration of fan_mask |= 1 << i                     *)
SetFanMaskBit ==
  /\ fan # <<>>
  /\ fan.pc = "fan_mask"
  /\ IF fan.i >= Len(fan.winding)
     THEN fan' = [fan EXCEPT !.pc = "unwind_odd", !.jdx = 1, !.j = 1]
     ELSE IF fan.i >= MaskBits /\ fan.overflow_checks
     THEN fan' = [fan EXCEPT !.pc = "export_panicked"]
     ELSE fan' = [fan EXCEPT !.fan_mask = @ \cup {fan.i % MaskBits}, !.i = @ + 1]
  /\ UNCHANGED <<cfg, internVars, scene, run, convert, clip, emit, cast, atlas, grouping, console, build, rating>>

(* process_hull_poly_lists: while j < s.winding_count                      *)
UnwindOdd ==
  /\ fan # <<>>
  /\ fan.pc = "unwind_odd"
  /\ IF fan.j < Len(fan.winding)
     THEN IF fan.jdx >= TempSize
          THEN fan' = [fan EXCEPT !.pc = "unwind_panicked"]
          ELSE fan' = [fan EXCEPT !.temp_indices[fan.jdx + 1] = fan.j,
                                  !.jdx = @ + 1,
                                  !.j = @ + 2]
     ELSE fan' = [fan EXCEPT !.pc = "unwind_even",
                             !.j = 2 * ((Len(fan.winding) - 1) \div 2)]
  /\ UNCHANGED <<cfg, internVars, scene, run, convert, clip, emit, cast, atlas, grouping, console, build, rating>>

(* process_hull_poly_lists: while j > 0 (jdx stays as it is)               *)
UnwindEven ==
  /\ fan # <<>>
  /\ fan.pc = "unwind_even"
  /\ IF fan.j > 0
     THEN IF fan.jdx >= TempSize
          THEN fan' = [fan EXCEPT !.pc = "unwind_panicked"]
          ELSE fan' = [fan EXCEPT !.temp_indices[fan.jdx + 1] = fan.j,
                                  !.j = @ - 2]
     ELSE fan' = [fan EXCEPT !.pc = "collect", !.jdx = 0, !.j = 0]
  /\ UNCHANGED <<cfg, internVars, scene, run, convert, clip, emit, cast, atlas, grouping, console, build, rating>>

(* process_hull_poly_lists: for j in 0..s.winding_count, and num_points    *)
CollectPoint ==
  /\ fan # <<>>
  /\ fan.pc = "collect"
  /\ IF fan.j >= Len(fan.winding)
     THEN fan' = [fan EXCEPT !.num_points = fan.jdx, !.pc = "done"]
     ELSE IF fan.j >= MaskBits /\ fan.overflow_checks
     THEN fan' = [fan EXCEPT !.pc = "unwind_panicked"]
     ELSE IF (fan.j % MaskBits) \notin fan.fan_mask
     THEN fan' = [fan EXCEPT !.j = @ + 1]
     ELSE IF fan.j >= TempSize \/ fan.jdx >= TempSize
     THEN fan' = [fan EXCEPT !.pc = "unwind_panicked"]
     ELSE fan' = [fan EXCEPT
            !.point_indices[fan.jdx + 1] = fan.indices[fan.temp_indices[fan.j + 1] + 1],
            !.jdx = @ + 1,
            !.j = @ + 1]
  /\ UNCHANGED <<cfg, internVars, scene, run, convert, clip, emit, cast, atlas, grouping, console, build, rating>>

NextFan ==
  \/ PushFanIndex
  \/ SetFanMaskBit
  \/ UnwindOdd
  \/ UnwindEven
  \/ CollectPoint

SpecFan == InitFan /\ [][NextFan]_vars

(* the winding position the claim gives slot i of a winding of n entries   *)
FanSlot(n, i) ==
  IF i < 2 THEN i
  ELSE IF i % 2 = 0 THEN n - 1 - (i - 2) \div 2 ELSE (i + 1) \div 2

(* export_surface has returned                                             *)
SurfaceWritten == fan # <<>> /\ fan.pc \in {"unwind_odd", "unwind_even", "collect", "done"}

(* C23: for a face with N >= 3 winding entries export_surface writes N     *)
(* indices, slot i holding the hull point of winding[FanSlot(N, i)]; the   *)
(* written sequence is a permutation of the input winding; and fan_mask is *)
(* 2^N - 1, the bits 0..N-1.  An export_surface that does not return       *)
(* (a panic) has not written the surface.                                  *)
C23_FanOrderAndMask ==
  fan # <<>> =>
    /\ fan.pc # "export_panicked"
    /\ SurfaceWritten =>
         \E n \in {Len(fan.winding)} :
           /\ Len(fan.indices) = n
           /\ \A i \in 0..(n - 1) :
                fan.indices[i + 1] = FanHullPoints[fan.winding[FanSlot(n, i) + 1] + 1]
           /\ \A k \in 1..n :
                Cardinality({i \in 1..n : fan.indices[i] = FanHullPoints[fan.winding[k] + 1]}) = 1
           /\ fan.fan_mask = 0..(n - 1)

(* the point list rebuilt for the surface                                  *)
RebuiltPoints == [k \in 1..fan.num_points |-> fan.point_indices[k]]

(* C30: for every surface with 3 <= N <= 32 winding entries, the point     *)
(* list process_hull_poly_lists rebuilds by unwinding the fan order holds  *)
(* each of the N winding entries exactly once, in the face's polygon       *)
(* order.                                                                  *)
C30_UnwindingInvertsFan ==
  (fan # <<>> /\ Len(fan.winding) <= TempSize) =>
    /\ fan.pc # "unwind_panicked"
    /\ fan.pc = "done" =>
         RebuiltPoints = [k \in 1..Len(fan.winding) |-> FanHullPoints[fan.winding[k] + 1]]

---------------------------------------------------------------------------
(* Ray casts through a built BSP (SpecCast): CSXBSPNode::ray_cast on the   *)
(* in-memory tree, Interior::bsp_ray_cast on the linked tree, and the      *)
(* per-surface loop of calculate_bsp_raycast_coverage.  The tree is the    *)
(* one build makes of the scene (Fast, first shuffle order, with the       *)
(* splitter the selection returns); the arithmetic is f32.                 *)

(* export_brushes: the loop over the brushes, from brush k on              *)
RECURSIVE ExportHulls(_, _, _, _)
ExportHulls(b, brushes, k, seed) ==
  IF k > Len(brushes) THEN b
  ELSE The({ExportHulls(res.b, brushes, k + 1, seed) :
              res \in {export_convex_hull(b, brushes[k], seed)}})

(* CSXBSPNode::split of the nodes of the stack, depth first                *)
RECURSIVE SplitAll(_, _, _)
SplitAll(tree, stack, plane_list) ==
  IF stack = <<>> THEN tree
  ELSE The({SplitAll(t, ChildrenToSplit(t, Head(stack)) \o Tail(stack), plane_list) :
              t \in {SplitTree(tree, Head(stack),
                               split_plane,
                               split_brush_list(tree[Head(stack)], split_plane, plane_list)) :
                       split_plane \in {CHOOSE p \in select_best_splitter(
                                                       tree[Head(stack)], plane_list, 0) :
                                          TRUE}}})

(* DIFBuilder::build up to the audit: the interior, the in-memory tree and *)
(* the root's reference                                                    *)
BuiltWorld(brushes) ==
  The({The({[b |-> linked.b, root |-> linked.r, tree |-> tree,
             plane_list |-> PlaneListOf(brushes)] :
              linked \in {export_bsp_node(ExportHulls(NewBuilder(FALSE), brushes, 1, 0),
                                          tree, PlaneListOf(brushes), <<>>)}}) :
         tree \in {SplitAll(RootTree(CSXBrushes(brushes)), << <<>> >>,
                            PlaneListOf(brushes))}})

(* a number given in units of 1/one, as an f32                             *)
F32OfScaled(i, one) == F32Div(F32FromInt(i), F32FromInt(one))

F32PlaneOf(plane) ==
  [normal |-> [c \in 1..3 |-> F32OfScaled(plane.normal[c], NormalOne)],
   distance |-> F32OfScaled(plane.distance, DistOne)]

(* total_cmp(&0.0) of a sum of the model (its zeros are +0.0)              *)
SideOf(x) == IF x.m = 0 THEN "Equal" ELSE IF x.neg THEN "Less" ELSE "Greater"

(* the sides of start and end of the segment against the plane             *)
Sides(pv, start, end) ==
  <<SideOf(F32PlaneDistance(pv, start)), SideOf(F32PlaneDistance(pv, end))>>

FrontSides == {<<"Greater", "Greater">>, <<"Greater", "Equal">>, <<"Equal", "Greater">>}
BackSides == {<<"Less", "Less">>, <<"Less", "Equal">>, <<"Equal", "Less">>}

(* the plane of a linked node as bsp_ray_cast reads it                     *)
NodePlaneF32(b, node_plane_index) ==
  The({IF node_plane_index >= FlipBit
       THEN [normal |-> [c \in 1..3 |-> F32Neg(pv.normal[c])],
             distance |-> F32Neg(pv.distance)]
       ELSE pv :
         pv \in {F32PlaneOf(PooledPlane(b, node_plane_index % FlipBit))}})

(* bsp_ray_cast at a solid leaf                                            *)
LeafListsPlane(b, index, plane_index) ==
  \E k \in 1..b.bsp_solid_leaves[index + 1].surface_count :
    b.surfaces[b.solid_leaf_surfaces[b.bsp_solid_leaves[index + 1].surface_index + k]
                 + 1].plane_index % FlipBit
      = plane_index % FlipBit

(* Interior::bsp_ray_cast                                                  *)
RECURSIVE bsp_ray_cast(_, _, _, _, _)
bsp_ray_cast(b, node, plane_index, start, end) ==
  IF ~node.leaf
  THEN The({The({
         IF sides \in FrontSides
         THEN bsp_ray_cast(b, node_value.front_index, plane_index, start, end)
         ELSE IF sides = <<"Greater", "Less">>
         THEN The({\/ bsp_ray_cast(b, node_value.front_index, plane_index, start, ip)
                   \/ bsp_ray_cast(b, node_value.back_index, node_value.plane_index, ip, end) :
                     ip \in {F32Intersection(pv, start, end)}})
         ELSE IF sides = <<"Less", "Greater">>
         THEN The({\/ bsp_ray_cast(b, node_value.back_index, plane_index, start, ip)
                   \/ bsp_ray_cast(b, node_value.front_index, node_value.plane_index, ip, end) :
                     ip \in {F32Intersection(pv, start, end)}})
         ELSE IF sides \in BackSides
         THEN bsp_ray_cast(b, node_value.back_index, plane_index, start, end)
         ELSE \/ bsp_ray_cast(b, node_value.front_index, plane_index, start, end)
              \/ bsp_ray_cast(b, node_value.back_index, plane_index, start, end) :
           sides \in {Sides(pv, start, end)}}) :
         node_value \in {b.bsp_nodes[node.index + 1]},
         pv \in {NodePlaneF32(b, b.bsp_nodes[node.index + 1].plane_index)}})
  ELSE IF node.solid THEN LeafListsPlane(b, node.index, plane_index)
  ELSE FALSE

(* ray_cast at a node without a plane                                      *)
BrushListHasPlane(node, plane_index) ==
  node.solid /\ \E k \in 1..Len(node.brush_list) :
                  \E j \in 1..Len(node.brush_list[k].faces) :
                    node.brush_list[k].faces[j].plane_id = plane_index

(* CSXBSPNode::ray_cast of the node at `path`; an absent child is None     *)
RECURSIVE ray_cast(_, _, _, _, _, _)
ray_cast(tree, path, start, end, plane_index, plane_list) ==
  IF path \notin DOMAIN tree THEN FALSE
  ELSE IF tree[path].plane_index = NoPlane THEN BrushListHasPlane(tree[path], plane_index)
  ELSE The({The({
         IF sides \in FrontSides
         THEN ray_cast(tree, Append(path, "front"), start, end, plane_index, plane_list)
         ELSE IF sides = <<"Greater", "Less">>
         THEN The({\/ ray_cast(tree, Append(path, "front"), start, ip, plane_index, plane_list)
                   \/ ray_cast(tree, Append(path, "back"), ip, end,
                               tree[path].plane_index, plane_list) :
                     ip \in {F32Intersection(pv, start, end)}})
         ELSE IF sides = <<"Less", "Greater">>
         THEN The({\/ ray_cast(tree, Append(path, "back"), start, ip, plane_index, plane_list)
                   \/ ray_cast(tree, Append(path, "front"), ip, end,
                               tree[path].plane_index, plane_list) :
                     ip \in {F32Intersection(pv, start, end)}})
         ELSE IF sides \in BackSides
         THEN ray_cast(tree, Append(path, "back"), start, end, plane_index, plane_list)
         ELSE FALSE :
           sides \in {Sides(pv, start, end)}}) :
         pv \in {F32PlaneOf(plane_list[tree[path].plane_index + 1])}})

(* u16::MAX                                                                *)
U16Max == 65535

(* the f32 sum of the vectors vs[1..k], from the zero vector               *)
RECURSIVE F32VecSum(_, _)
F32VecSum(vs, k) ==
  IF k = 0 THEN [c \in 1..3 |-> F32Zero]
  ELSE The({[c \in 1..3 |-> F32Add(acc[c], vs[k][c])] : acc \in {F32VecSum(vs, k - 1)}})

(* calculate_bsp_raycast_coverage: the ray of surface s, from 0.1 in front *)
(* of the surface's middle to 0.1 behind it, and the target plane it       *)
(* passes to bsp_ray_cast                                                  *)
CoverageRay(b, s) ==
  LET points == [k \in 1..s.winding_count |->
                   [c \in 1..3 |->
                      F32OfScaled(b.points[b.indices[s.winding_start + k] + 1][c], PointOne)]]
      avg_point == [c \in 1..3 |->
                      F32Div(F32VecSum(points, s.winding_count)[c],
                             F32FromInt(s.winding_count))]
      norm == F32PlaneOf(PooledPlane(b, s.plane_index % FlipBit)).normal
      step == [c \in 1..3 |->
                 F32Mul(IF s.plane_flipped THEN F32Neg(norm[c]) ELSE norm[c],
                        F32OfScaled(1, 10))]
  IN  [start |-> [c \in 1..3 |-> F32Add(avg_point[c], step[c])],
       end |-> [c \in 1..3 |-> F32Sub(avg_point[c], step[c])],
       pidx |-> U16Max]

(* the scenes whose BSP is cast through: a box, and two boxes sharing a    *)
(* wall                                                                    *)
CastBrushLists ==
  { <<BoxBrush(<<0, 0, 0>>, <<4, 4, 4>>, 0)>>,
    <<BoxBrush(<<0, 0, 0>>, <<4, 4, 4>>, 0), BoxBrush(<<4, 0, 0>>, <<8, 4, 2>>, 6)>> }

(* the segments cast, in whole units: through the box, along its wall      *)
(* x = 4 inside the wall's plane, and outside the box                      *)
CastSegments ==
  { << <<2, 2, 5>>, <<2, 2, 3>> >>,
    << <<4, 1, 1>>, <<4, 3, 1>> >>,
    << <<9, 9, 9>>, <<10, 9, 9>> >> }

InitCast ==
  /\ cfg = DefaultConfig
  /\ IdleIntern
  /\ scene = <<>>
  /\ run = <<>>
  /\ console = <<>>
  /\ grouping = <<>>
  /\ atlas = <<>>
  /\ convert = <<>>
  /\ clip = <<>>
  /\ emit = <<>>
  /\ fan = <<>>
  /\ IdleBuild
  /\ IdleRating
  /\ \E brushes \in CastBrushLists :
     \E world \in {BuiltWorld(brushes)} :
       cast = [b |-> world.b, root |-> world.root, tree |-> world.tree,
               plane_list |-> world.plane_list,
               op |-> "none", node |-> <<>>, start |-> <<>>, end |-> <<>>,
               target |-> 0, result |-> FALSE,
               surface |-> 0, hit |-> 0]

(* a call of Interior::bsp_ray_cast on a node of the linked tree; the      *)
(* build makes them (lightmap.rs 519) before the audit that ends it        *)
CallBspRayCast ==
  /\ cast # <<>>
  /\ cast.surface = 0
  /\ \E index \in 0..(Len(cast.b.bsp_nodes) - 1), seg \in CastSegments,
        plane_index \in {0, Len(cast.b.planes) - 1} :
     \E node \in {[leaf |-> FALSE, solid |-> FALSE, index |-> index]} :
       cast' = [cast EXCEPT
                  !.op = "bsp_ray_cast", !.node = node,
                  !.start = F32Vec(seg[1]), !.end = F32Vec(seg[2]),
                  !.target = plane_index,
                  !.result = bsp_ray_cast(cast.b, node, plane_index,
                                          F32Vec(seg[1]), F32Vec(seg[2]))]
  /\ UNCHANGED <<cfg, internVars, scene, run, convert, clip, emit, fan, atlas, grouping, console, build, rating>>

(* a call of CSXBSPNode::ray_cast on a node of the in-memory tree, as its  *)
(* recursion and the root audit (builder.rs 1148) make them; the tree is   *)
(* queried before the audit of the linked nodes ends the build             *)
CallRayCast ==
  /\ cast # <<>>
  /\ cast.surface = 0
  /\ \E path \in DOMAIN cast.tree, seg \in CastSegments,
        plane_index \in {0, Len(cast.plane_list) - 1} :
       cast' = [cast EXCEPT
                  !.op = "ray_cast", !.node = path,
                  !.start = F32Vec(seg[1]), !.end = F32Vec(seg[2]),
                  !.target = plane_index,
                  !.result = ray_cast(cast.tree, path, F32Vec(seg[1]), F32Vec(seg[2]),
                                      plane_index, cast.plane_list)]
  /\ UNCHANGED <<cfg, internVars, scene, run, convert, clip, emit, fan, atlas, grouping, console, build, rating>>

(* calculate_bsp_raycast_coverage: one iteration of the loop over          *)
(* self.surfaces (the surface areas are left out)                          *)
CoverageSurface ==
  /\ cast # <<>>
  /\ cast.surface < Len(cast.b.surfaces)
  /\ \E ray \in {CoverageRay(cast.b, cast.b.surfaces[cast.surface + 1])} :
     \E res \in {bsp_ray_cast(cast.b, [leaf |-> FALSE, solid |-> FALSE, index |-> 0],
                              ray.pidx, ray.start, ray.end)} :
       cast' = [cast EXCEPT
                  !.op = "coverage", !.node = cast.surface,
                  !.start = ray.start, !.end = ray.end,
                  !.target = ray.pidx,
                  !.result = res,
                  !.hit = IF res THEN @ + 1 ELSE @,
                  !.surface = @ + 1]
  /\ UNCHANGED <<cfg, internVars, scene, run, convert, clip, emit, fan, atlas, grouping, console, build, rating>>

NextCast ==
  \/ CallBspRayCast
  \/ CallRayCast
  \/ CoverageSurface

SpecCast == InitCast /\ [][NextCast]_vars

(* the segment of the last call lies in the plane of the node it was made  *)
(* on, both ends exactly                                                   *)
LinkedCallInPlane ==
  /\ cast.op = "bsp_ray_cast"
  /\ Sides(NodePlaneF32(cast.b, cast.b.bsp_nodes[cast.node.index + 1].plane_index),
           cast.start, cast.end) = <<"Equal", "Equal">>

MemoryCallInPlane ==
  /\ cast.op = "ray_cast"
  /\ cast.tree[cast.node].plane_index # NoPlane
  /\ Sides(F32PlaneOf(cast.plane_list[cast.tree[cast.node].plane_index + 1]),
           cast.start, cast.end) = <<"Equal", "Equal">>

(* C24: at an interior node where start and end of the segment both lie    *)
(* exactly on the node's plane, the traversal tries both children and      *)
(* reports a hit if either child does, in Interior::bsp_ray_cast and in    *)
(* CSXBSPNode::ray_cast alike.                                             *)
C24_InPlaneTriesBothChildren ==
  cast # <<>> =>
    /\ LinkedCallInPlane =>
         cast.result
           = (\/ bsp_ray_cast(cast.b, cast.b.bsp_nodes[cast.node.index + 1].front_index,
                              cast.target, cast.start, cast.end)
              \/ bsp_ray_cast(cast.b, cast.b.bsp_nodes[cast.node.index + 1].back_index,
                              cast.target, cast.start, cast.end))
    /\ MemoryCallInPlane =>
         cast.result
           = (\/ ray_cast(cast.tree, Append(cast.node, "front"), cast.start, cast.end,
                          cast.target, cast.plane_list)
              \/ ray_cast(cast.tree, Append(cast.node, "back"), cast.start, cast.end,
                          cast.target, cast.plane_list))

(* C25: calculate_bsp_raycast_coverage starts the ray of every surface     *)
(* with the surface's own plane id as the target plane: the audit of a     *)
(* surface passes its plane id (low 15 bits) and counts what the cast with *)
(* that target finds.                                                      *)
C25_AuditTargetsOwnPlane ==
  (cast # <<>> /\ cast.op = "coverage") =>
    \E s \in {cast.b.surfaces[cast.node + 1]} :
      /\ cast.target % FlipBit = s.plane_index % FlipBit
      /\ cast.result = bsp_ray_cast(cast.b, [leaf |-> FALSE, solid |-> FALSE, index |-> 0],
                                    s.plane_index, cast.start, cast.end)

(***************************************************************************)
(* compute_lightmaps (builder.rs 1163-1300): one rectangle per surface,    *)
(* bins opened by area, the rectangles packed into the bins.               *)
(***************************************************************************)

(* the side of an atlas: TargetBin::new(256, 256, 255)                     *)
AtlasSize == 256

(* the most surfaces of one run                                            *)
MaxSurfaces == 3

(* fill_in_lightmap_info: the side of the rectangle of a surface that      *)
(* spans min..max lumels, both whole: desired_start = floor(min - 1),      *)
(* desired_end = ceil(max + 1), the side (desired_end - desired_start +    *)
(* 0.5) as u32                                                             *)
lmap_dim(min, max) == (max + 1) - (min - 1)

(* the extents of a surface along its two axes, in lumels                  *)
LumelExtents == { <<127, 127>>, <<126, 126>>, <<254, 254>>, <<62, 254>> }

(* rects_to_place after the first loop                                     *)
RectsToPlace(extents) ==
  [k \in 1..Len(extents) |->
     [width |-> lmap_dim(0, extents[k][1]), height |-> lmap_dim(0, extents[k][2])]]

(* two placed rectangles of one bin share a lumel                          *)
Overlap(r1, l1, r2, l2) ==
  /\ l1.bin = l2.bin
  /\ l1.x < l2.x + r2.width
  /\ l2.x < l1.x + r1.width
  /\ l1.y < l2.y + r2.height
  /\ l2.y < l1.y + r1.height

(* the sums of the members of the bag of numbers ns[1..k]                  *)
RECURSIVE SubsetSums(_, _)
SubsetSums(ns, k) ==
  IF k = 0 THEN {0}
  ELSE The({sums \cup {s + ns[k] : s \in sums} : sums \in {SubsetSums(ns, k - 1)}})

(* where a packer can put rectangle k: every packing can be pushed left    *)
(* and down until each rectangle touches the bin's border or another       *)
(* rectangle, so offsets that are sums of sides are all that matter        *)
Locations(rects, bins, k) ==
  { [bin |-> bin, x |-> x, y |-> y] :
      bin \in 0..(bins - 1),
      x \in {s \in SubsetSums([j \in 1..Len(rects) |-> rects[j].width], Len(rects)) :
               s + rects[k].width <= AtlasSize},
      y \in {s \in SubsetSums([j \in 1..Len(rects) |-> rects[j].height], Len(rects)) :
               s + rects[k].height <= AtlasSize} }

(* the packings of rects[1..k] into the bins: inside the bin, no two of    *)
(* one bin overlapping                                                     *)
RECURSIVE Packings(_, _, _)
Packings(rects, bins, k) ==
  IF k = 0 THEN { <<>> }
  ELSE UNION { { Append(placed, loc) :
                   loc \in { l \in Locations(rects, bins, k) :
                               \A j \in 1..(k - 1) :
                                 ~Overlap(rects[k], l, rects[j], placed[j]) } } :
               placed \in Packings(rects, bins, k - 1) }

(* rectangle_pack::pack_rects: a packing of all rectangles, or             *)
(* Err(NotEnoughBinSpace) when the bins cannot hold them                   *)
pack_rects(rects, bins) ==
  IF Packings(rects, bins, Len(rects)) = {} THEN {"NotEnoughBinSpace"}
  ELSE Packings(rects, bins, Len(rects))

InitAtlas ==
  /\ cfg = DefaultConfig
  /\ IdleIntern
  /\ scene = <<>>
  /\ run = <<>>
  /\ console = <<>>
  /\ grouping = <<>>
  /\ convert = <<>>
  /\ clip = <<>>
  /\ emit = <<>>
  /\ fan = <<>>
  /\ cast = <<>>
  /\ IdleBuild
  /\ IdleRating
  /\ \E n \in 1..MaxSurfaces :
     \E extents \in [1..n -> LumelExtents] :
       atlas = [rects_to_place |-> RectsToPlace(extents),
                surf_idx |-> 0,
                lmaps_needed |-> 1,
                area_remaining |-> AtlasSize * AtlasSize,
                pc |-> "fill",
                packed_locations |-> <<>>,
                light_maps |-> 0]

(* the first loop, one surface: the area account that opens the bins       *)
FillInLightmapInfo ==
  /\ atlas # <<>>
  /\ atlas.pc = "fill"
  /\ atlas.surf_idx < Len(atlas.rects_to_place)
  /\ \E rect \in {atlas.rects_to_place[atlas.surf_idx + 1]} :
     \E lmap_area \in {rect.width * rect.height} :
     \E reopened \in {atlas.area_remaining - lmap_area < 0} :
       atlas' = [atlas EXCEPT
                   !.lmaps_needed = IF reopened THEN @ + 1 ELSE @,
                   !.area_remaining =
                      (IF reopened THEN AtlasSize * AtlasSize ELSE @) - lmap_area,
                   !.surf_idx = @ + 1]
  /\ UNCHANGED <<cfg, internVars, scene, run, convert, clip, emit, fan, cast, grouping, console, build, rating>>

(* target_bins of lmaps_needed bins, pack_rects(..).unwrap()               *)
PackRects ==
  /\ atlas # <<>>
  /\ atlas.pc = "fill"
  /\ atlas.surf_idx = Len(atlas.rects_to_place)
  /\ \E packed \in pack_rects(atlas.rects_to_place, atlas.lmaps_needed) :
       atlas' = IF packed = "NotEnoughBinSpace"
                THEN [atlas EXCEPT !.pc = "panicked"]
                ELSE [atlas EXCEPT !.pc = "packed", !.packed_locations = packed]
  /\ UNCHANGED <<cfg, internVars, scene, run, convert, clip, emit, fan, cast, grouping, console, build, rating>>

(* the loop that writes the placements to the surfaces, and the loop that  *)
(* pushes one light map per bin opened                                     *)
PushLightMaps ==
  /\ atlas # <<>>
  /\ atlas.pc = "packed"
  /\ atlas' = [atlas EXCEPT !.pc = "done", !.light_maps = atlas.lmaps_needed]
  /\ UNCHANGED <<cfg, internVars, scene, run, convert, clip, emit, fan, cast, grouping, console, build, rating>>

NextAtlas ==
  \/ FillInLightmapInfo
  \/ PackRects
  \/ PushLightMaps

SpecAtlas == InitAtlas /\ [][NextAtlas]_vars

(* the bins that hold a placement                                          *)
BinsUsed == { atlas.packed_locations[k].bin : k \in 1..Len(atlas.packed_locations) }

(* C26: compute_lightmaps never aborts because of packing: rectangles that *)
(* the atlases opened so far cannot take get a further atlas, so every     *)
(* surface ends with a placement inside [0,256)^2 that overlaps no other   *)
(* placement of its atlas, and a light map is emitted for every atlas      *)
(* that is used.                                                           *)
C26_PackingNeverAborts ==
  atlas # <<>> =>
    /\ atlas.pc # "panicked"
    /\ atlas.pc = "done" =>
         /\ Len(atlas.packed_locations) = Len(atlas.rects_to_place)
         /\ \A k \in 1..Len(atlas.rects_to_place) :
              /\ atlas.packed_locations[k].x >= 0
              /\ atlas.packed_locations[k].y >= 0
              /\ atlas.packed_locations[k].x + atlas.rects_to_place[k].width <= AtlasSize
              /\ atlas.packed_locations[k].y + atlas.rects_to_place[k].height <= AtlasSize
              /\ \A j \in 1..(k - 1) :
                   ~Overlap(atlas.rects_to_place[k], atlas.packed_locations[k],
                            atlas.rects_to_place[j], atlas.packed_locations[j])
         /\ atlas.light_maps >= Cardinality(BinsUsed)

(***************************************************************************)
(* process_hull_poly_lists (builder.rs 811-945): the planes of one hull    *)
(* are grouped, and the groups merged until eight are left.                *)
(***************************************************************************)

(* PlaneGrouping::plane_indices is [u16; 32]                               *)
GroupCap == 32

(* while plane_groups.len() > 8                                            *)
MaxGroups == 8

(* a / b rounded to nearest, for a >= 0 and b > 0                          *)
RoundDiv(a, b) == (2 * a + b) \div (2 * b)

(* the point at the i-th of n steps along a quarter circle, from (1, 0)    *)
(* to (0, 1), in units of 1/NormalOne                                      *)
ArcPoint(n, i) ==
  << RoundDiv(NormalOne * (n * n - i * i), n * n + i * i),
     RoundDiv(NormalOne * 2 * i * n, n * n + i * i) >>

(* s directions around the full circle (s a multiple of 4): the quarter    *)
(* arc and its three turns by a right angle                                *)
RingDirection(s, k) ==
  LET p == ArcPoint(s \div 4, (k - 1) \div 4)
  IN  CASE (k - 1) % 4 = 0 -> <<p[1], p[2]>>
        [] (k - 1) % 4 = 1 -> <<-p[2], p[1]>>
        [] (k - 1) % 4 = 2 -> <<-p[1], -p[2]>>
        [] OTHER -> <<p[2], -p[1]>>

(* the product of two numbers in units of 1/NormalOne                      *)
GridMul(a, b) ==
  (IF (a < 0) # (b < 0) THEN -1 ELSE 1) * RoundDiv(Abs(a) * Abs(b), NormalOne)

(* the face normals of a dome brush: the bottom, and r rings of s facets   *)
(* between the pole and the rim (every face has at most s points)          *)
DomeNormals(r, s) ==
  << <<0, 0, -NormalOne>> >>
    \o [k \in 1..(r * s) |->
          LET d == RingDirection(s, ((k - 1) % s) + 1)
              t == ArcPoint(r + 1, (k - 1) \div s + 1)
          IN  <<GridMul(d[1], t[2]), GridMul(d[2], t[2]), t[1]>>]

(* the rings and the facets per ring of the hulls grouped                  *)
DomeShapes == { <<1, 8>>, <<2, 8>>, <<4, 8>>, <<9, 16>> }

(* the bits of an f32 as a signed number: f32 values compare as these do   *)
F32Ordinal(a) ==
  IF a.m = 0 THEN 0
  ELSE (IF a.neg THEN -1 ELSE 1) * ((a.e + 150) * Pow2(23) + (a.m - Pow2(23)))

(* first_normal.dot(second_normal) for every pair of planes of the hull    *)
NormalDots(normals) ==
  The({ [l \in 1..Len(vs) |->
           [m \in 1..Len(vs) |-> F32Ordinal(F32Dot(vs[l], vs[m]))] \o <<>>] \o <<>> :
        vs \in {[l \in 1..Len(normals) |->
                   [c \in 1..3 |-> F32OfScaled(normals[l][c], NormalOne)] \o <<>>] \o <<>>} })

(* the largest of vals[lo..hi]                                             *)
RECURSIVE MaxVal(_, _, _)
MaxVal(vals, lo, hi) ==
  IF lo = hi THEN vals[lo]
  ELSE The({ Max2(a, b) :
             a \in {MaxVal(vals, lo, (lo + hi) \div 2)},
             b \in {MaxVal(vals, (lo + hi) \div 2 + 1, hi)} })

(* the first index of lo..hi at which vals is least (max < cur_min keeps   *)
(* the earlier of two equal values)                                        *)
RECURSIVE ArgMinFirst(_, _, _)
ArgMinFirst(vals, lo, hi) ==
  IF lo = hi THEN lo
  ELSE The({ IF vals[b] < vals[a] THEN b ELSE a :
             a \in {ArgMinFirst(vals, lo, (lo + hi) \div 2)},
             b \in {ArgMinFirst(vals, (lo + hi) \div 2 + 1, hi)} })

(* max: the largest dot product of a plane of first and a plane of second  *)
MaxPairDot(dots, first, second) ==
  MaxVal([i \in 1..(Len(first) * Len(second)) |->
            dots[first[(i - 1) \div Len(second) + 1] + 1]
                [second[((i - 1) % Len(second)) + 1] + 1]] \o <<>>,
         1, Len(first) * Len(second))

(* max for every pair of groups j < k: row j holds the pairs (j, j + 1),  *)
(* (j, j + 2), ...                                                         *)
PairRows(dots, plane_groups) ==
  [j \in 1..(Len(plane_groups) - 1) |->
     [k \in 1..(Len(plane_groups) - j) |->
        MaxPairDot(dots, plane_groups[j], plane_groups[j + k])] \o <<>>] \o <<>>

FirstLeast(rows) ==
  The({ The({ <<j, j + seconds[j]>> :
              j \in {ArgMinFirst([i \in 1..Len(rows) |-> rows[i][seconds[i]]] \o <<>>,
                                 1, Len(rows))} }) :
        seconds \in {[j \in 1..Len(rows) |-> ArgMinFirst(rows[j], 1, Len(rows[j]))] \o <<>>} })

(* first_group and second_group: the first pair j < k whose max is least   *)
ClosestPair(dots, plane_groups) ==
  The({ FirstLeast(rows) : rows \in {PairRows(dots, plane_groups)} })

(* the merge: the planes of second, last first, behind those of first      *)
MergedGroup(to, from) == to \o [i \in 1..Len(from) |-> from[Len(from) + 1 - i]]

RemoveAt(seq, k) == SubSeq(seq, 1, k - 1) \o SubSeq(seq, k + 1, Len(seq))

(* the mask of the group that holds plane_index, 0 when none does          *)
GroupMask(plane_groups, plane_index) ==
  IF \E j \in 1..Len(plane_groups) :
       \E l \in 1..Len(plane_groups[j]) : plane_groups[j][l] = plane_index
  THEN Pow2((CHOOSE j \in 1..Len(plane_groups) :
               /\ \E l \in 1..Len(plane_groups[j]) : plane_groups[j][l] = plane_index
               /\ \A i \in 1..(j - 1) :
                    \A l \in 1..Len(plane_groups[i]) : plane_groups[i][l] # plane_index) - 1)
         % 256
  ELSE 0

InitGrouping ==
  /\ cfg = DefaultConfig
  /\ IdleIntern
  /\ scene = <<>>
  /\ run = <<>>
  /\ console = <<>>
  /\ convert = <<>>
  /\ clip = <<>>
  /\ emit = <<>>
  /\ fan = <<>>
  /\ cast = <<>>
  /\ atlas = <<>>
  /\ IdleBuild
  /\ IdleRating
  /\ \E shape \in DomeShapes :
     \E normals \in {DomeNormals(shape[1], shape[2])} :
       grouping = [normals |-> normals,
                   normal_dot |-> NormalDots(normals),
                   plane_indices |-> [i \in 1..Len(normals) |-> i - 1],
                   plane_groups |-> [i \in 1..Len(normals) |-> <<i - 1>>],
                   plane_masks |-> <<>>,
                   pc |-> "merge"]

(* one turn of `while plane_groups.len() > 8`: the closest pair is merged, *)
(* which writes past to.plane_indices when the two hold more than 32       *)
MergeClosestGroups ==
  /\ grouping # <<>>
  /\ grouping.pc = "merge"
  /\ Len(grouping.plane_groups) > MaxGroups
  /\ \E pair \in {ClosestPair(grouping.normal_dot, grouping.plane_groups)} :
     \E to \in {grouping.plane_groups[pair[1]]}, from \in {grouping.plane_groups[pair[2]]} :
       grouping' =
         IF Len(to) + Len(from) > GroupCap
         THEN [grouping EXCEPT !.pc = "panicked"]
         ELSE [grouping EXCEPT
                 !.plane_groups =
                    RemoveAt([grouping.plane_groups EXCEPT ![pair[1]] = MergedGroup(to, from)],
                             pair[2])]
  /\ UNCHANGED <<cfg, internVars, scene, run, convert, clip, emit, fan, cast, atlas, console, build, rating>>

(* after the loop: plane_group.mask = 1 << j, copied to the planes         *)
AssignGroupMasks ==
  /\ grouping # <<>>
  /\ grouping.pc = "merge"
  /\ Len(grouping.plane_groups) <= MaxGroups
  /\ grouping' = [grouping EXCEPT
                    !.pc = "done",
                    !.plane_masks =
                       [i \in 1..Len(grouping.plane_indices) |->
                          GroupMask(grouping.plane_groups, grouping.plane_indices[i])]]
  /\ UNCHANGED <<cfg, internVars, scene, run, convert, clip, emit, fan, cast, atlas, console, build, rating>>

NextGrouping ==
  \/ MergeClosestGroups
  \/ AssignGroupMasks

SpecGrouping == InitGrouping /\ [][NextGrouping]_vars

(* C27: for a hull with fewer than 256 planes the merging loop ends        *)
(* without aborting, with at most eight groups, every plane of the hull in *)
(* exactly one group, and every plane given the mask 1 << j (j < 8) of its *)
(* group.                                                                  *)
C27_GroupsMergeWithoutAbort ==
  (grouping # <<>> /\ Len(grouping.plane_indices) < 256) =>
    /\ grouping.pc # "panicked"
    /\ grouping.pc = "done" =>
         /\ Len(grouping.plane_groups) <= MaxGroups
         /\ \A i \in 1..Len(grouping.plane_indices) :
              /\ Cardinality({ <<j, l>> \in (1..Len(grouping.plane_groups)) \X (1..GroupCap) :
                                 /\ l <= Len(grouping.plane_groups[j])
                                 /\ grouping.plane_groups[j][l] = grouping.plane_indices[i] }) = 1
              /\ \E j \in 1..Len(grouping.plane_groups) :
                   /\ \E l \in 1..Len(grouping.plane_groups[j]) :
                        grouping.plane_groups[j][l] = grouping.plane_indices[i]
                   /\ grouping.plane_masks[i] = Pow2(j - 1)

(***************************************************************************)
(* ConsoleProgressListener (main.rs 103-180): the converting thread sends  *)
(* progress messages over a channel, the listener thread draws the bars.   *)
(***************************************************************************)

(* the most messages sent before stop()                                    *)
MaxMessages == 3

(* the clock runs to this many throttle periods of 100 ms                  *)
MaxClock == 2

Statuses == {"Exporting detail level", "Exporting convex hulls"}

(* the finish_status sent along with a status                              *)
FinishStatus(status) ==
  IF status = "Exporting detail level" THEN "Exported detail levels"
  ELSE "Exported convex hulls"

(* (current, total) of the messages sent: a line to print, a step, the end *)
(* of a phase of two steps, the end of a phase of one                      *)
Counts == { <<0, 0>>, <<1, 2>>, <<2, 2>>, <<1, 1>> }

NoMessage == [stop |-> FALSE, current |-> 0, total |-> 0, status |-> "", finish_status |-> ""]

InitConsole ==
  /\ cfg = DefaultConfig
  /\ IdleIntern
  /\ scene = <<>>
  /\ run = <<>>
  /\ convert = <<>>
  /\ clip = <<>>
  /\ emit = <<>>
  /\ fan = <<>>
  /\ cast = <<>>
  /\ atlas = <<>>
  /\ grouping = <<>>
  /\ IdleBuild
  /\ IdleRating
  /\ console = [receiver |-> <<>>,
                sent |-> 0,
                stopped |-> FALSE,
                now |-> 0,
                progress_types |-> <<>>,
                printed |-> 0,
                handled |-> 0,
                received |-> NoMessage,
                pc |-> "recv"]

(* ProgressEventListener::progress: thread_tx.send((false, ..))            *)
SendProgress ==
  /\ console # <<>>
  /\ ~console.stopped
  /\ console.sent < MaxMessages
  /\ \E status \in Statuses, count \in Counts :
       console' = [console EXCEPT
                     !.receiver = Append(@, [stop |-> FALSE, current |-> count[1],
                                             total |-> count[2], status |-> status,
                                             finish_status |-> FinishStatus(status)]),
                     !.sent = @ + 1]
  /\ UNCHANGED <<cfg, internVars, scene, run, convert, clip, emit, fan, cast, atlas, grouping, build, rating>>

(* ConsoleProgressListener::stop, which main calls once the conversion is  *)
(* over: thread_tx.send((true, 0, 0, "", ""))                              *)
SendStop ==
  /\ console # <<>>
  /\ ~console.stopped
  /\ console' = [console EXCEPT
                   !.receiver = Append(@, [NoMessage EXCEPT !.stop = TRUE]),
                   !.stopped = TRUE]
  /\ UNCHANGED <<cfg, internVars, scene, run, convert, clip, emit, fan, cast, atlas, grouping, build, rating>>

(* time passes: Instant::now() grows by a throttle period                  *)
ClockTick ==
  /\ console # <<>>
  /\ console.now < MaxClock
  /\ console.pc = "recv"
  /\ console' = [console EXCEPT !.now = @ + 1]
  /\ UNCHANGED <<cfg, internVars, scene, run, convert, clip, emit, fan, cast, atlas, grouping, build, rating>>

HasBar(progress_types, status) ==
  \E i \in 1..Len(progress_types) : progress_types[i].status = status

BarOf(progress_types, status) ==
  CHOOSE i \in 1..Len(progress_types) : progress_types[i].status = status

(* the body of the listener's loop for one message                         *)
HandleMessage(c, msg) ==
  IF msg.stop THEN [c EXCEPT !.pc = "terminated"]
  ELSE IF msg.total = 0 THEN [c EXCEPT !.printed = @ + 1]
  ELSE IF HasBar(c.progress_types, msg.status)
  THEN LET i == BarOf(c.progress_types, msg.status)
           bar == c.progress_types[i]
       IN  IF c.now - bar.last_updated < 1 /\ msg.total # msg.current
           THEN c
           ELSE [c EXCEPT
                   !.progress_types[i] =
                      [status |-> msg.status,
                       last_updated |-> c.now,
                       length |-> msg.total,
                       position |-> msg.current,
                       message |-> IF msg.current = msg.total
                                   THEN msg.finish_status ELSE msg.status,
                       finished |-> bar.finished \/ msg.current = msg.total]]
  ELSE [c EXCEPT
          !.progress_types =
             Append(@, [status |-> msg.status,
                        last_updated |-> c.now,
                        length |-> msg.total,
                        position |-> msg.current,
                        message |-> msg.status,
                        finished |-> FALSE])]

(* receiver.recv().unwrap() and the loop's body                            *)
ReceiveMessage ==
  /\ console # <<>>
  /\ console.pc = "recv"
  /\ console.receiver # <<>>
  /\ \E msg \in {Head(console.receiver)} :
       console' = [HandleMessage(console, msg) EXCEPT
                     !.receiver = Tail(console.receiver),
                     !.received = msg,
                     !.handled = IF msg.stop THEN @ ELSE @ + 1]
  /\ UNCHANGED <<cfg, internVars, scene, run, convert, clip, emit, fan, cast, atlas, grouping, build, rating>>

NextConsole ==
  \/ SendProgress
  \/ SendStop
  \/ ClockTick
  \/ ReceiveMessage

SpecConsole == InitConsole /\ [][NextConsole]_vars

(* the listener thread is scheduled: a message in the channel is received  *)
LiveConsole == SpecConsole /\ WF_vars(ReceiveMessage)

(* the message handled last ended its phase                                *)
ReceivedPhaseEnd ==
  /\ console # <<>>
  /\ ~console.received.stop
  /\ console.received.total # 0
  /\ console.received.current = console.received.total

(* the bar of the status handled last is finished with finish_status       *)
BarFinished ==
  /\ HasBar(console.progress_types, console.received.status)
  /\ \E bar \in {console.progress_types[BarOf(console.progress_types,
                                              console.received.status)]} :
       /\ bar.finished
       /\ bar.message = console.received.finish_status

(* C28: every received message with total != 0 and current == total       *)
(* finishes the bar of its status with finish_status, whether the bar      *)
(* exists already or the message is the first of its status; and once      *)
(* stop() is sent the thread handles every message sent before it and then *)
(* terminates.                                                             *)
C28_PhaseEndFinishesBar ==
  /\ [](ReceivedPhaseEnd => BarFinished)
  /\ []((console # <<>> /\ console.pc = "terminated")
          => (console.handled = console.sent /\ console.receiver = <<>>))
  /\ ((console # <<>> /\ console.stopped) ~> (console.pc = "terminated"))

---------------------------------------------------------------------------
(* the leaves of the finished tree.                                        *)

(* node q is node p or below it                                            *)
Below(p, q) == Len(p) <= Len(q) /\ SubSeq(q, 1, Len(p)) = p

LeavesSolid ==
  \A p \in DOMAIN build.tree :
    build.tree[p].plane_index = NoPlane
      => build.tree[p].solid /\ build.tree[p].brush_list # <<>>

SolidInherited ==
  \A p \in DOMAIN build.tree, q \in DOMAIN build.tree :
    (build.tree[p].solid /\ Below(p, q)) => build.tree[q].solid

(* C29: in the tree build_bsp returns with Fast or Exhaustive every node   *)
(* without a plane_index is solid and has brushes (empty space is an       *)
(* absent child), and every node below a solid node is solid.              *)
C29_LeavesSolidAndInherited ==
  (build # <<>> /\ cfg.split_method # "None" /\ BspBuilt)
    => LeavesSolid /\ SolidInherited

C29_Witness ==
  /\ BspBuilt
  /\ cfg.split_method # "None"
  /\ \E p \in DOMAIN build.tree, q \in DOMAIN build.tree :
       /\ build.tree[p].solid
       /\ build.tree[p].plane_index # NoPlane
       /\ Below(p, q) /\ p # q
       /\ build.tree[q].plane_index = NoPlane
  /\ \E p \in DOMAIN build.tree :
       /\ build.tree[p].plane_index # NoPlane
       /\ Append(p, "front") \notin DOMAIN build.tree

=============================================================================
